---- MODULE Spec2Model ----
(***************************************************************************)
(* Model of the myaku collection engine: the execution graph builder       *)
(* (lib/src/graph.rs), the prefill of the value store, the evaluator with  *)
(* its worktree pool, and the cache / output write-back (lib/src/lib.rs).  *)
(***************************************************************************)
EXTENDS Integers, Sequences, FiniteSets, TLC

(***************************************************************************)
(* Bounds of the model.                                                    *)
(***************************************************************************)
\* number of commits the repository walk returns
NumCommits == 2
\* number of worktrees in the pool (num_cpus::get() on the host)
PoolSize == 1

CommitIds == 1..NumCommits
Worktrees == 1..PoolSize

(***************************************************************************)
(* Collector keys (CollectorConfig) and the collector registry.            *)
(***************************************************************************)
NoPattern == "-"
Patterns == {"p"}

K(kind) == [kind |-> kind, pattern |-> NoPattern]
KP(kind, p) == [kind |-> kind, pattern |-> p]

CollectorConfig ==
    {K(k) : k \in {"TotalLoc", "Loc", "TotalDiffStat", "TotalCargoDeps", "ChangedFiles",
                   "FileList", "TotalFileCount", "ChangedFilesLoc"}}
    \cup {KP(k, p) : k \in {"TotalPatternOccurences", "PatternOccurences"}, p \in Patterns}

Frequency == {"PerCommit", "Yearly", "Monthly", "Weekly", "Daily", "Hourly"}

\* the match with the arms of the base collectors that read ChangedFiles left out
HasDependency_DerivedOnly(key) ==
    key.kind \in {"TotalPatternOccurences", "TotalLoc", "TotalFileCount"}

\* the "Create dependency tasks" match of add_task: does the kind have a dependency
HasDependency(key) ==
    key.kind \in {"TotalPatternOccurences", "PatternOccurences", "TotalCargoDeps",
                  "TotalLoc", "TotalFileCount", "ChangedFilesLoc"}

\* the dependency task created for the collector itself
DependencyOf_Self(key) == key

\* the collector the dependency task is created for
DependencyOf(key) ==
    CASE key.kind = "TotalPatternOccurences" -> KP("PatternOccurences", key.pattern)
      [] key.kind \in {"PatternOccurences", "TotalCargoDeps", "ChangedFilesLoc"}
                                             -> K("ChangedFiles")
      [] key.kind = "TotalLoc"               -> K("Loc")
      [] key.kind = "TotalFileCount"         -> K("FileList")
      [] OTHER                               -> key

\* impl From<&CollectorConfig> for Collector: Derived collectors read only the store
IsDerived(key) == key.kind \in {"TotalLoc", "TotalPatternOccurences", "TotalFileCount"}

(***************************************************************************)
(* Commit times.  A time is a number of hours counted from Monday          *)
(* 2012-12-31T00:00Z; the calendar fields chrono derives from it are given *)
(* for the window 2012-12-31 .. 2013-02-28.                                *)
(***************************************************************************)
DayNumber(t) == t \div 24
Hour(t) == t % 24
YearCe(t) == IF DayNumber(t) = 0 THEN 2012 ELSE 2013
Month0(t) == IF DayNumber(t) = 0 THEN 11 ELSE IF DayNumber(t) <= 31 THEN 0 ELSE 1
Day0(t) ==
    IF DayNumber(t) = 0 THEN 30
    ELSE IF DayNumber(t) <= 31 THEN DayNumber(t) - 1 ELSE DayNumber(t) - 32
IsoWeek(t) == <<2013, (DayNumber(t) \div 7) + 1>>

\* the frequency predicate of build_collection_execution_graph
IsSameYear(a, b) == YearCe(a) = YearCe(b)
IsSameMonth(a, b) == IsSameYear(a, b) /\ Month0(a) = Month0(b)
IsSameWeek(a, b) == IsSameMonth(a, b) /\ IsoWeek(a) = IsoWeek(b)
IsSameDay(a, b) == IsSameWeek(a, b) /\ Day0(a) = Day0(b)
IsSameHour(a, b) == IsSameDay(a, b) /\ Hour(a) = Hour(b)

\* the match with the week taken from the ISO week alone
SameBucket_IsoWeekOnly(a, b, frequency) ==
    CASE frequency = "PerCommit" -> FALSE
      [] frequency = "Yearly"    -> IsSameYear(a, b)
      [] frequency = "Monthly"   -> IsSameMonth(a, b)
      [] frequency = "Weekly"    -> IsoWeek(a) = IsoWeek(b)
      [] frequency = "Daily"     -> IsSameDay(a, b)
      [] frequency = "Hourly"    -> IsSameHour(a, b)

\* the match with a PerCommit arm that puts a commit time in its own bucket
SameBucket_PerCommitSame(a, b, frequency) ==
    CASE frequency = "PerCommit" -> a = b
      [] frequency = "Yearly"    -> IsSameYear(a, b)
      [] frequency = "Monthly"   -> IsSameMonth(a, b)
      [] frequency = "Weekly"    -> IsSameWeek(a, b)
      [] frequency = "Daily"     -> IsSameDay(a, b)
      [] frequency = "Hourly"    -> IsSameHour(a, b)

\* "match metric_config.frequency" over the is_same_* flags
SameBucket(a, b, frequency) ==
    CASE frequency = "PerCommit" -> FALSE
      [] frequency = "Yearly"    -> IsSameYear(a, b)
      [] frequency = "Monthly"   -> IsSameMonth(a, b)
      [] frequency = "Weekly"    -> IsSameWeek(a, b)
      [] frequency = "Daily"     -> IsSameDay(a, b)
      [] frequency = "Hourly"    -> IsSameHour(a, b)

(***************************************************************************)
(* The execution graph: nodes and edges in creation order, as petgraph     *)
(* keeps them.  A node index is a position in nodes.                       *)
(***************************************************************************)
NoCommit == 0
EmptyGraph == [nodes |-> <<>>, edges |-> <<>>]

Task(key, commit) == [collector_config |-> key, commit_hash |-> commit]
Edge(s, d, dist) == [source |-> s, target |-> d, distance |-> dist]

\* a lookup that never finds the task
CreatedTask_None(g, key, commit) == 0

\* created_tasks.get(&(collector_config, commit_hash)): 0 when there is none
CreatedTask(g, key, commit) ==
    LET hits == {i \in 1..Len(g.nodes) : g.nodes[i] = Task(key, commit)}
    IN IF hits = {} THEN 0 ELSE CHOOSE i \in hits : TRUE

RECURSIVE add_task(_, _, _, _, _)
add_task(g, key, current, previous, distance) ==
    IF CreatedTask(g, key, current) # 0
    THEN [graph |-> g, idx |-> CreatedTask(g, key, current)]
    ELSE
      LET idx == Len(g.nodes) + 1
          g1 == [g EXCEPT !.nodes = Append(@, Task(key, current))]
          g2 == IF HasDependency(key)
                THEN LET r == add_task(g1, DependencyOf(key), current, previous, distance)
                     IN [r.graph EXCEPT !.edges = Append(@, Edge(r.idx, idx, 0))]
                ELSE g1
          last == IF previous = NoCommit THEN 0 ELSE CreatedTask(g2, key, previous)
          g3 == IF last # 0
                THEN [g2 EXCEPT !.edges = Append(@, Edge(last, idx, distance))]
                ELSE g2
      IN [graph |-> g3, idx |-> idx]

\* sorted_commits.sort_by(time): a stable sort, ascending by time
RECURSIVE InsertByTime(_, _)
InsertByTime(sorted, c) ==
    IF sorted = <<>> THEN <<c>>
    ELSE IF sorted[Len(sorted)].time <= c.time THEN Append(sorted, c)
    ELSE Append(InsertByTime(SubSeq(sorted, 1, Len(sorted) - 1), c), sorted[Len(sorted)])

\* the commits left in the order the walk returned them
SortedCommits_Unsorted(cs) == cs

RECURSIVE SortedCommits(_)
SortedCommits(cs) ==
    IF cs = <<>> THEN <<>>
    ELSE InsertByTime(SortedCommits(SubSeq(cs, 1, Len(cs) - 1)), cs[Len(cs)])

\* the skipped flag computed without the force_latest_commit test
Skipped_Unforced(metric, sorted, index, previous_commit, force_latest_commit) ==
    IF previous_commit # 0
    THEN SameBucket(sorted[previous_commit].time, sorted[index].time, metric.frequency)
    ELSE FALSE

\* the skipped flag of one iteration of the commit loop
Skipped(metric, sorted, index, previous_commit, force_latest_commit) ==
    IF force_latest_commit /\ index = Len(sorted) THEN FALSE
    ELSE IF previous_commit # 0
         THEN SameBucket(sorted[previous_commit].time, sorted[index].time, metric.frequency)
         ELSE FALSE

\* the inner loop over sorted_commits for one metric; previous_commit is a
\* position in sorted (0 for None); distance is only ever incremented
RECURSIVE MetricLoop(_, _, _, _, _, _, _)
MetricLoop(g, metric, sorted, index, previous_commit, distance, force_latest_commit) ==
    IF index > Len(sorted) THEN g
    ELSE IF Skipped(metric, sorted, index, previous_commit, force_latest_commit)
    THEN MetricLoop(g, metric, sorted, index + 1, previous_commit, distance + 1,
                    force_latest_commit)
    ELSE MetricLoop(add_task(g, metric.collector, sorted[index].id,
                             IF previous_commit = 0 THEN NoCommit
                             ELSE sorted[previous_commit].id,
                             distance).graph,
                    metric, sorted, index + 1, index, distance, force_latest_commit)

\* the outer loop over metrics.values(), in the map's iteration order
RECURSIVE MetricsLoop(_, _, _, _, _)
MetricsLoop(g, ms, m, sorted, force_latest_commit) ==
    IF m > Len(ms) THEN g
    ELSE MetricsLoop(MetricLoop(g, ms[m], sorted, 1, 0, 0, force_latest_commit),
                     ms, m + 1, sorted, force_latest_commit)

build_collection_execution_graph(ms, cs, force_latest_commit) ==
    MetricsLoop(EmptyGraph, ms, 1, SortedCommits(cs), force_latest_commit)

(***************************************************************************)
(* petgraph::visit::Topo and the grouping by commit of execute_collection. *)
(***************************************************************************)
NodeIndices(g) == 1..Len(g.nodes)

IncomingSources(g, n) == {g.edges[e].source : e \in {e \in 1..Len(g.edges) : g.edges[e].target = n}}

\* g.neighbors(n): targets of the outgoing edges of n, most recently added edge first
RECURSIVE NeighborsFrom(_, _, _)
NeighborsFrom(g, n, e) ==
    IF e = 0 THEN <<>>
    ELSE IF g.edges[e].source = n
         THEN <<g.edges[e].target>> \o NeighborsFrom(g, n, e - 1)
         ELSE NeighborsFrom(g, n, e - 1)
Neighbors(g, n) == NeighborsFrom(g, n, Len(g.edges))

\* Topo::extend_with_initials: the nodes without incoming edge, by ascending index
RECURSIVE Initials(_, _)
Initials(g, n) ==
    IF n > Len(g.nodes) THEN <<>>
    ELSE IF IncomingSources(g, n) = {} THEN <<n>> \o Initials(g, n + 1)
    ELSE Initials(g, n + 1)

\* the neighbours pushed on tovisit after nix was ordered
RECURSIVE PushReady(_, _, _, _)
PushReady(g, tovisit, neighs, ordered) ==
    IF neighs = <<>> THEN tovisit
    ELSE PushReady(g,
                   IF IncomingSources(g, Head(neighs)) \subseteq ordered
                   THEN Append(tovisit, Head(neighs)) ELSE tovisit,
                   Tail(neighs), ordered)

\* Topo::next, iterated until tovisit is empty; tovisit is a stack
RECURSIVE TopoWalk(_, _, _, _)
TopoWalk(g, tovisit, ordered, acc) ==
    IF tovisit = <<>> THEN acc
    ELSE LET nix == tovisit[Len(tovisit)]
             rest == SubSeq(tovisit, 1, Len(tovisit) - 1)
         IN IF nix \in ordered THEN TopoWalk(g, rest, ordered, acc)
            ELSE TopoWalk(g, PushReady(g, rest, Neighbors(g, nix), ordered \cup {nix}),
                          ordered \cup {nix}, Append(acc, nix))

Topo(g) == TopoWalk(g, Initials(g, 1), {}, <<>>)

\* the fold into an IndexMap keyed by commit hash: groups in order of first
\* appearance, nodes of a group in visiting order
RECURSIVE GroupFold(_, _, _, _)
GroupFold(g, order, i, acc) ==
    IF i > Len(order) THEN acc
    ELSE LET c == g.nodes[order[i]].commit_hash
             at == {j \in 1..Len(acc) : g.nodes[acc[j][1]].commit_hash = c}
         IN IF at = {}
            THEN GroupFold(g, order, i + 1, Append(acc, <<order[i]>>))
            ELSE LET j == CHOOSE j \in at : TRUE
                 IN GroupFold(g, order, i + 1, [acc EXCEPT ![j] = Append(@, order[i])])

\* the tasks as graph.node_indices() yields them, without the topological sort
VisitOrder_ByIndex(g) == [i \in 1..Len(g.nodes) |-> i]

\* "petgraph::visit::Topo::new(&graph)" followed by ".iter(&graph)"
VisitOrder(g) == Topo(g)

GroupedTasks(g) == GroupFold(g, VisitOrder(g), 1, <<>>)

(***************************************************************************)
(* Inputs of a run.  The metric map is a sequence: its order is the        *)
(* iteration order of the HashMap, its positions stand for metric names.   *)
(***************************************************************************)
Metric(key, frequency) == [collector |-> key, frequency |-> frequency]
Commit(id, time) == [id |-> id, time |-> time]

MetricMaps ==
    { <<Metric(K("TotalLoc"), "PerCommit")>>,
      <<Metric(KP("TotalPatternOccurences", "p"), "PerCommit")>>,
      <<Metric(K("TotalDiffStat"), "Daily")>>,
      <<Metric(K("Loc"), "PerCommit"), Metric(K("TotalLoc"), "Daily")>> }

\* two commits of one day, or of two consecutive days
CommitTimes == {0, 24}

\* the values a CollectorValue can stand for: computed by a collector in this
\* run, left in the cache by an earlier run, left in the output by an earlier run
Fresh == "fresh"
Cached == "cached"
FromOutput == "out"

\* every collector a metric map can lead to a task for
RECURSIVE WithDependencies(_)
WithDependencies(key) ==
    IF HasDependency(key) THEN {key} \cup WithDependencies(DependencyOf(key)) ELSE {key}
TaskKeys(ms) == UNION {WithDependencies(ms[m].collector) : m \in 1..Len(ms)}

VARIABLES
    metrics,              \* CollectionProcess.metrics
    commits,              \* IdleWithCommits.commits, as the walk returned them
    force_latest_commit,  \* the flag handed to build_collection_execution_graph
    disable_cache,        \* CollectionProcess.disable_cache
    cache,                \* the entries of the FileCache: (key, commit) -> value
    output,               \* the previous output: (metric name, commit) -> value
    run,                  \* "first" or "second" run of the program on these inputs
    state,                \* CollectionProcessState
    step,                 \* position of execute() in its chain of calls
    storage,              \* the DashMap (key, commit) -> value
    graph,                \* collection_execution_graph
    node_indices,         \* the tasks grouped by commit
    worktree_pool,        \* the worktrees in the pool
    position,             \* per group: index of the task the worker is at
    worker,               \* per group: where the worker is in the loop body
    temp_worktree,        \* per group: the worktree pulled from the pool, 0 if none
    new_metric_count,
    reused_metric_count,
    errors,               \* the groups whose closure returned Err
    result,               \* what execute_collection returned
    invoked,              \* history: the tasks whose collector was invoked in this run
    inserts,              \* history: number of storage.insert calls per key in this run
    cache_hits,           \* history: what cache.lookup returned during the prefill
    prefilled,            \* history: the inserts counted when the prefill was over
    first_run,            \* history: storage, graph and errors at the end of the first run
    caller,               \* who calls the phases: execute(), the CLI's main, or a user of the API
    remote_url,           \* the remote URL of the reference directory, "none" if it is no repository
    ignore_mismatched_repo_url,  \* the CLI's flag
    git_calls,            \* history: the operations on the repository and the cache that ran
    offline,              \* the CLI's flag
    history,              \* the number of commits on the remote's mainline branch
    cache_files,          \* the files of the cache directory: path -> bytes written
    store_call,           \* a call of FileCache::store and where it is
    lookup_call,          \* a call of FileCache::lookup and where it is
    checked_out,          \* per worktree: the commit its holder reset it to, 0 if none did
    repository,           \* the tree of every commit: file -> the lines of the file
    globs                 \* PatternOccurences.files: the files its globs match

vars == <<metrics, commits, force_latest_commit, disable_cache, cache, output, run, state,
          step, storage, graph, node_indices, worktree_pool, position, worker,
          temp_worktree, new_metric_count, reused_metric_count, errors, result, invoked,
          inserts, cache_hits, prefilled, first_run, caller, remote_url,
          ignore_mismatched_repo_url, git_calls, offline, history, cache_files,
          store_call, lookup_call, checked_out, repository, globs>>

\* what the collection reads and never writes
config == <<metrics, commits, force_latest_commit, disable_cache, caller, remote_url,
            ignore_mismatched_repo_url, git_calls, offline, history, cache_files,
            store_call, lookup_call, repository, globs>>
workers == <<node_indices, worktree_pool, position, worker, temp_worktree, checked_out,
             new_metric_count, reused_metric_count, errors, invoked>>

Empty == <<>>
NoRun == [done |-> FALSE]

\* CollectionProcess.reference.url
ReferenceUrl == "a"

\* the phase operations of CollectionProcess
Operations ==
    {"initial", "fetch", "clone", "collect_commits", "collect_tags",
     "prepare_for_collection", "collection", "write_to_cache", "write_to_output"}

\* the one with collect_tags matching the state collect_commits matches
SourceState_TagsEarly(op) ==
    CASE op = "initial"                -> "Initial"
      [] op = "fetch"                  -> "ReadyForFetch"
      [] op = "clone"                  -> "ReadyForClone"
      [] op = "collect_commits"        -> "IdleWithoutCommits"
      [] op = "collect_tags"           -> "IdleWithoutCommits"
      [] op = "prepare_for_collection" -> "IdleWithCommits"
      [] op = "collection"             -> "ReadyForCollection"
      [] op = "write_to_cache"         -> "PostCollection"
      [] op = "write_to_output"        -> "PostCollection"

\* the state the "if let" of an operation matches self.state against
SourceState(op) ==
    CASE op = "initial"                -> "Initial"
      [] op = "fetch"                  -> "ReadyForFetch"
      [] op = "clone"                  -> "ReadyForClone"
      [] op = "collect_commits"        -> "IdleWithoutCommits"
      [] op = "collect_tags"           -> "IdleWithCommits"
      [] op = "prepare_for_collection" -> "IdleWithCommits"
      [] op = "collection"             -> "ReadyForCollection"
      [] op = "write_to_cache"         -> "PostCollection"
      [] op = "write_to_output"        -> "PostCollection"

Accepts(op, st) == st = SourceState(op)

\* the phases before prepare_for_collection went by, called by execute():
\* the reference directory was a clone of the configured URL and was fetched
Fetched ==
    /\ caller = "execute"
    /\ remote_url = ReferenceUrl
    /\ ignore_mismatched_repo_url = FALSE
    /\ git_calls = {"fetch", "get_all_commits", "get_all_commit_tags"}
    /\ offline = FALSE
    /\ history = Len(commits)

StorageKey(task) == <<task.collector_config, task.commit_hash>>
KeyOf(n) == StorageKey(graph.nodes[n])

\* storage.insert(key, value), with the count of inserts kept beside the map
Insert(s, key, value) ==
    [map |-> (key :> value) @@ s.map,
     count |-> (key :> (IF key \in DOMAIN s.count THEN s.count[key] + 1 ELSE 1)) @@ s.count]

(***************************************************************************)
(* FileCache: one file per (collector, commit), holding the value as JSON. *)
(* The bytes of a file are a sequence of pieces, so that a file can hold   *)
(* the beginning of a value.                                               *)
(***************************************************************************)
\* serde_json::to_string(collector_config): the tag and the fields of the variant
ConfigJson(key) ==
    IF key.pattern = NoPattern THEN <<"collector", key.kind>>
    ELSE <<"collector", key.kind, "pattern", key.pattern>>

\* a path made of the collector alone
get_data_point_path_PerCollector(key, commit) == <<"sha1", ConfigJson(key), "json">>

\* base/<sha1 of the config's JSON>/<commit>.json; the hash is taken as free
\* of collisions
get_data_point_path(key, commit) == <<"sha1", ConfigJson(key), commit, "json">>

\* serde_json::to_string(value) and the CollectorValues it is called for
CollectorValues == {Fresh, Cached, FromOutput}
Encode(value) == <<"{", value, "}">>

\* serde_json::from_str(&contents) as a lookup that takes what it cannot
\* decode for a missing entry
Parsed_Lenient(bytes) ==
    IF \E v \in CollectorValues : bytes = Encode(v)
    THEN [ok |-> TRUE, value |-> bytes[2]]
    ELSE [ok |-> TRUE, value |-> "None"]

\* serde_json::from_str(&contents)?: Ok(Some(value)) or the error
Parsed(bytes) ==
    IF \E v \in CollectorValues : bytes = Encode(v)
    THEN [ok |-> TRUE, value |-> bytes[2]]
    ELSE [ok |-> FALSE, value |-> "SerdeJson"]

\* what lookup returns on files nobody writes to
Lookup(files, key, commit) ==
    IF get_data_point_path(key, commit) \notin DOMAIN files
    THEN [ok |-> TRUE, value |-> "None"]
    ELSE Parsed(files[get_data_point_path(key, commit)])

\* the files that hold the entries of a cache
FilesOf(entries) ==
    [p \in {get_data_point_path(k[1], k[2]) : k \in DOMAIN entries} |->
        LET k == CHOOSE k \in DOMAIN entries : get_data_point_path(k[1], k[2]) = p
        IN Encode(entries[k])]

NoCall == [pc |-> "none"]

\* the cache directory holds the entries of the cache and no call is under way
Mounted ==
    /\ cache_files = FilesOf(cache)
    /\ store_call = NoCall
    /\ lookup_call = NoCall

\* the variables of a process in which nothing was collected yet
Blank ==
    /\ run = "first"
    /\ storage = Empty
    /\ graph = EmptyGraph
    /\ node_indices = <<>>
    /\ worktree_pool = {}
    /\ position = <<>>
    /\ worker = <<>>
    /\ temp_worktree = <<>>
    /\ checked_out = <<>>
    /\ new_metric_count = 0
    /\ reused_metric_count = 0
    /\ errors = {}
    /\ result = "none"
    /\ invoked = {}
    /\ inserts = Empty
    /\ cache_hits = Empty
    /\ prefilled = Empty
    /\ first_run = NoRun

(***************************************************************************)
(* execute_prepare_for_collection                                          *)
(***************************************************************************)
\* "Fill storage from previous output": for commit in commits, for metric in metrics
RECURSIVE FillFromOutput(_, _, _)
FillFromOutput(s, c, m) ==
    IF c > Len(commits) THEN s
    ELSE IF m > Len(metrics) THEN FillFromOutput(s, c + 1, 1)
    ELSE FillFromOutput(
            IF <<m, commits[c].id>> \in DOMAIN output
            THEN Insert(s, <<metrics[m].collector, commits[c].id>>, output[<<m, commits[c].id>>])
            ELSE s,
            c, m + 1)

\* "Fill storage from cache": for nx in graph.node_indices()
RECURSIVE FillFromCache(_, _, _)
FillFromCache(s, g, nx) ==
    IF nx > Len(g.nodes) THEN s
    ELSE FillFromCache(
            IF StorageKey(g.nodes[nx]) \in DOMAIN cache
            THEN Insert(s, StorageKey(g.nodes[nx]), cache[StorageKey(g.nodes[nx])])
            ELSE s,
            g, nx + 1)

CacheLookups(g) ==
    [k \in {StorageKey(g.nodes[n]) : n \in 1..Len(g.nodes)} \cap DOMAIN cache |-> cache[k]]

ExecutePrepareForCollection ==
    /\ step = "prepare_for_collection"
    /\ Accepts("prepare_for_collection", state)
    /\ LET g == build_collection_execution_graph(metrics, commits, force_latest_commit)
           s0 == [map |-> storage, count |-> inserts]
           s1 == IF disable_cache THEN s0 ELSE FillFromOutput(s0, 1, 1)
           s2 == IF disable_cache THEN s1 ELSE FillFromCache(s1, g, 1)
       IN /\ graph' = g
          /\ storage' = s2.map
          /\ inserts' = s2.count
          /\ cache_hits' = IF disable_cache THEN Empty ELSE CacheLookups(g)
          /\ prefilled' = s2.count
    /\ state' = "ReadyForCollection"
    /\ step' = "collection"
    /\ UNCHANGED <<config, cache, output, run, workers, result, first_run>>

(***************************************************************************)
(* execute_collection: set-up, one worker per commit group, wrap-up        *)
(***************************************************************************)
Groups == 1..Len(node_indices)
CurrentTask(g) == node_indices[g][position[g]]

\* sources of the distance-0 edges into n that lie on n's own commit
DependencySources(gr, n) ==
    {gr.edges[e].source : e \in {e \in 1..Len(gr.edges) :
        /\ gr.edges[e].target = n
        /\ gr.edges[e].distance = 0
        /\ gr.nodes[gr.edges[e].source].commit_hash = gr.nodes[n].commit_hash}}

BeginCollection ==
    /\ step = "collection"
    /\ Accepts("collection", state)
    /\ node_indices' = GroupedTasks(graph)
    /\ worktree_pool' = Worktrees
    /\ position' = [g \in 1..Len(GroupedTasks(graph)) |-> 1]
    /\ worker' = [g \in 1..Len(GroupedTasks(graph)) |-> "check"]
    /\ temp_worktree' = [g \in 1..Len(GroupedTasks(graph)) |-> 0]
    /\ checked_out' = [w \in Worktrees |-> 0]
    /\ new_metric_count' = 0
    /\ reused_metric_count' = 0
    /\ errors' = {}
    /\ invoked' = {}
    /\ step' = "collecting"
    /\ UNCHANGED <<config, cache, output, run, state, storage, graph, result, inserts,
                   cache_hits, prefilled, first_run>>

\* the same test with the flag taken the wrong way round
SkipCollection_Inverted(is_in_storage, disabled) == is_in_storage /\ disabled = TRUE

\* the test "is_in_storage && disable_cache == false"
SkipCollection(is_in_storage, disabled) == is_in_storage /\ disabled = FALSE

IsInStorage(g) == KeyOf(CurrentTask(g)) \in DOMAIN storage

\* "return Ok(())" in the branch that found the value in storage
AfterReuse(g) == [worker |-> "returned", position |-> position[g]]

\* the end of the loop body after a successful collection: the next task, or
\* the closure's final Ok(())
AfterNew(g) ==
    IF position[g] < Len(node_indices[g])
    THEN [worker |-> "check", position |-> position[g] + 1]
    ELSE [worker |-> "returned", position |-> position[g]]

\* an error that is dropped, the loop going on with the next task
AfterError_Continue(g) ==
    IF position[g] < Len(node_indices[g])
    THEN [worker |-> "check", position |-> position[g] + 1]
    ELSE [worker |-> "returned", position |-> position[g]]

\* the "?" on reset_hard and on collect: the closure returns the error
AfterError(g) == [worker |-> "returned", position |-> position[g]]

Move(g, to) ==
    /\ worker' = [worker EXCEPT ![g] = to.worker]
    /\ position' = [position EXCEPT ![g] = to.position]

Reuse(g) ==
    /\ step = "collecting"
    /\ worker[g] = "check"
    /\ SkipCollection(IsInStorage(g), disable_cache)
    /\ reused_metric_count' = reused_metric_count + 1
    /\ Move(g, AfterReuse(g))
    /\ UNCHANGED <<config, cache, output, run, state, step, storage, graph, node_indices,
                   worktree_pool, temp_worktree, checked_out, new_metric_count, errors,
                   result,
                   invoked, inserts, cache_hits, prefilled, first_run>>

\* a pull that hands out a worktree whether or not it is in the pool
Pullable_Any(pool) == Worktrees

\* the worktrees try_pull can hand out
Pullable(pool) == pool

\* a reset that leaves HEAD where it was
reset_hard_Stale(head, revstring) == head

\* WorktreeHandle::reset_hard: HEAD is detached at the commit of the revstring
reset_hard(head, revstring) == revstring

\* the worktree a try_pull handed out, and worktree.reset_hard(&task.commit_hash.0)?
\* on it: the collector runs on it next, or the reset failed and the
\* worktree is dropped with the collector not invoked
Pull(g, w) ==
    \/ /\ temp_worktree' = [temp_worktree EXCEPT ![g] = w]
       /\ worktree_pool' = worktree_pool \ {w}
       /\ checked_out' = [checked_out EXCEPT ![w] =
              reset_hard(@, graph.nodes[CurrentTask(g)].commit_hash)]
       /\ worker' = [worker EXCEPT ![g] = "holding"]
       /\ UNCHANGED <<position, errors>>
    \/ /\ errors' = errors \cup {g}
       /\ Move(g, AfterError(g))
       /\ UNCHANGED <<temp_worktree, worktree_pool, checked_out>>

\* the first worktree_pool.try_pull() of a base collector's task
TryPull(g) ==
    /\ step = "collecting"
    /\ worker[g] = "check"
    /\ ~SkipCollection(IsInStorage(g), disable_cache)
    /\ ~IsDerived(graph.nodes[CurrentTask(g)].collector_config)
    /\ \/ \E w \in Pullable(worktree_pool) : Pull(g, w)
       \/ /\ Pullable(worktree_pool) = {}
          /\ worker' = [worker EXCEPT ![g] = "spin"]
          /\ UNCHANGED <<temp_worktree, worktree_pool, checked_out, position, errors>>
    /\ UNCHANGED <<config, cache, output, run, state, step, storage, graph, node_indices,
                   new_metric_count, reused_metric_count, result, invoked, inserts,
                   cache_hits, prefilled, first_run>>

\* a try_pull() of the while loop that returns a worktree (one that returns
\* None leaves every variable as it is)
RetryPull(g) ==
    /\ step = "collecting"
    /\ worker[g] = "spin"
    /\ \E w \in Pullable(worktree_pool) : Pull(g, w)
    /\ UNCHANGED <<config, cache, output, run, state, step, storage, graph, node_indices,
                   new_metric_count, reused_metric_count, result, invoked, inserts,
                   cache_hits, prefilled, first_run>>

(***************************************************************************)
(* The repository and the collectors that read it.  A tree gives, for each *)
(* file it holds, the lines of the file: every line matches the pattern of *)
(* PatternOccurences, and in a Cargo.lock every line is a package.         *)
(***************************************************************************)
Files == {"a.rs", "Cargo.lock"}
Lines == {1}
EmptyTree == <<>>
Trees == UNION {[present -> SUBSET Lines] : present \in SUBSET Files}

\* the tree of a commit; the parent of the first commit has the empty tree
TreeOf(repo, commit) == IF commit \in DOMAIN repo THEN repo[commit] ELSE EmptyTree

\* the diff of HEAD's tree against its parent's, or against the empty tree
get_current_changed_file_paths(repo, head) ==
    {f \in Files :
        \/ (f \in DOMAIN TreeOf(repo, head)) # (f \in DOMAIN TreeOf(repo, head - 1))
        \/ /\ f \in DOMAIN TreeOf(repo, head)
           /\ f \in DOMAIN TreeOf(repo, head - 1)
           /\ TreeOf(repo, head)[f] # TreeOf(repo, head - 1)[f]}

\* a repository no collector finds anything in
Bare == repository = [c \in 1..history |-> EmptyTree] /\ globs = Files

\* searcher.search_path over the files: one PartialMatchData per matching line
Matches(tree, files) ==
    UNION {{[path |-> f, line |-> l] : l \in tree[f]} : f \in files \cap DOMAIN tree}

\* find_preceding_node(distance == 1, same collector_config): the node indices
PrecedingNodes(gr, n) ==
    {gr.edges[e].source : e \in {e \in 1..Len(gr.edges) :
        /\ gr.edges[e].target = n
        /\ gr.edges[e].distance = 1
        /\ gr.nodes[gr.edges[e].source].collector_config = gr.nodes[n].collector_config}}

\* the Option it returns, as a set: empty, or holding the predecessor's value
get_previous_commit_value_of_collector(st, gr, n) ==
    {st[StorageKey(gr.nodes[p])] :
        p \in {p \in PrecedingNodes(gr, n) : StorageKey(gr.nodes[p]) \in DOMAIN st}}

\* an incremental value that keeps the cached matches of the changed files
Incremental_KeepChanged(P, changed, matching, tree) ==
    P \cup Matches(tree, {f \in matching : f \in DOMAIN tree})

\* the cached matches outside the changed files, with the fresh matches of the
\* changed files that match the globs and exist in the worktree
Incremental(P, changed, matching, tree) ==
    {m \in P : m.path \notin changed}
        \cup Matches(tree, {f \in matching : f \in DOMAIN tree})

\* a collector that takes the missing value of the previous commit for an error
PatternOccurencesCollect_Required(st, gr, n, repo, globset, tree) ==
    LET changed == get_current_changed_file_paths(repo, gr.nodes[n].commit_hash)
        previous == get_previous_commit_value_of_collector(st, gr, n)
    IN IF previous # {}
       THEN [ok |-> TRUE,
             value |-> [matches |-> Incremental((CHOOSE v \in previous : TRUE).matches,
                                                changed, changed \cap globset, tree)]]
       ELSE [ok |-> FALSE, value |-> [matches |-> {}]]

\* PatternOccurences::collect
PatternOccurencesCollect(st, gr, n, repo, globset, tree) ==
    LET changed == get_current_changed_file_paths(repo, gr.nodes[n].commit_hash)
        matching == changed \cap globset
        previous == get_previous_commit_value_of_collector(st, gr, n)
    IN IF previous # {}
       THEN [ok |-> TRUE,
             value |-> [matches |-> Incremental((CHOOSE v \in previous : TRUE).matches,
                                                changed, matching, tree)]]
       ELSE [ok |-> TRUE, value |-> [matches |-> Matches(tree, globset)]]

\* TotalCargoDependencies::collect; Lockfile::load fails on a file that is gone
TotalCargoDependenciesCollect(st, gr, n, repo, tree) ==
    LET changed == get_current_changed_file_paths(repo, gr.nodes[n].commit_hash)
        modified_cargo_lock_paths == changed \cap {"Cargo.lock"}
        previous == get_previous_commit_value_of_collector(st, gr, n)
    IN IF modified_cargo_lock_paths = {} /\ previous # {}
       THEN [ok |-> TRUE, value |-> CHOOSE v \in previous : TRUE]
       ELSE IF \E f \in modified_cargo_lock_paths : f \notin DOMAIN tree
       THEN [ok |-> FALSE, value |-> [total_dependencies |-> 0]]
       ELSE [ok |-> TRUE,
             value |-> [total_dependencies |->
                 Cardinality(UNION {tree[f] : f \in modified_cargo_lock_paths})]]

\* collector.collect(storage, worktree, graph, node): the collectors whose
\* value the model follows; Fresh stands for the value of every other one
CollectorOutput(st, gr, n, repo, globset, tree) ==
    CASE gr.nodes[n].collector_config.kind = "PatternOccurences"
            -> PatternOccurencesCollect(st, gr, n, repo, globset, tree)
      [] gr.nodes[n].collector_config.kind = "TotalCargoDeps"
            -> TotalCargoDependenciesCollect(st, gr, n, repo, tree)
      [] OTHER -> [ok |-> TRUE, value |-> Fresh]

\* find_incoming_edges: the incoming edges of n that match the edge predicate
\* "distance == d", in the order petgraph walks them, the newest edge first
RECURSIVE IncomingEdgesFrom(_, _, _, _)
IncomingEdgesFrom(gr, n, d, e) ==
    IF e = 0 THEN <<>>
    ELSE IF gr.edges[e].target = n /\ gr.edges[e].distance = d
         THEN <<e>> \o IncomingEdgesFrom(gr, n, d, e - 1)
         ELSE IncomingEdgesFrom(gr, n, d, e - 1)
find_incoming_edges(gr, n, d) == IncomingEdgesFrom(gr, n, d, Len(gr.edges))

\* a search that takes the source of the first edge, whatever its collector
find_preceding_node_AnySource(gr, n, d, key) ==
    IF find_incoming_edges(gr, n, d) = <<>> THEN 0
    ELSE gr.edges[find_incoming_edges(gr, n, d)[1]].source

\* find_preceding_node with the node predicate "collector_config == key": the
\* source of the first of these edges whose source matches, 0 for None
find_preceding_node(gr, n, d, key) ==
    LET edges == find_incoming_edges(gr, n, d)
        hits == {i \in 1..Len(edges) : gr.nodes[gr.edges[edges[i]].source].collector_config = key}
    IN IF hits = {} THEN 0
       ELSE gr.edges[edges[CHOOSE i \in hits : \A j \in hits : i <= j]].source

\* a lookup that returns the LookupError also when no source node matches
get_value_of_preceeding_node_NoPanic(st, gr, n, d, key) ==
    LET p == find_preceding_node(gr, n, d, key)
    IN IF p = 0 \/ StorageKey(gr.nodes[p]) \notin DOMAIN st
       THEN [outcome |-> "Err", value |-> {}]
       ELSE [outcome |-> "Ok", value |-> {st[StorageKey(gr.nodes[p])]}]

\* get_value_of_preceeding_node: the panic of unwrap_or_else when no source
\* node matches, Err(LookupError) when the source's value is not in the
\* storage, Ok(value) otherwise
get_value_of_preceeding_node(st, gr, n, d, key) ==
    LET p == find_preceding_node(gr, n, d, key)
    IN IF p = 0 THEN [outcome |-> "panic", value |-> {}]
       ELSE IF StorageKey(gr.nodes[p]) \notin DOMAIN st
       THEN [outcome |-> "Err", value |-> {}]
       ELSE [outcome |-> "Ok", value |-> {st[StorageKey(gr.nodes[p])]}]

\* the node predicate of the lookup each collector's collect() starts with:
\* the collector configuration it asks for, none if it does no lookup
NodePredicate(key) ==
    CASE key.kind = "TotalFileCount" -> {K("FileList")}
      [] key.kind = "TotalLoc" -> {K("Loc")}
      [] key.kind \in {"ChangedFilesLoc", "TotalCargoDeps", "PatternOccurences"}
            -> {K("ChangedFiles")}
      [] key.kind = "TotalPatternOccurences" -> {KP("PatternOccurences", key.pattern)}
      [] OTHER -> {}

\* get_value_of_preceeding_node: the lookup of the dependency's value succeeds
LookupOk(n) == \A d \in DependencySources(graph, n) : KeyOf(d) \in DOMAIN storage

\* an insert that does not wait for the collector's result
InsertCollected_Unchecked(st, key, ok, value) == Insert(st, key, value)

\* "let value = collector.collect(...)?; storage.insert(...)": the value is
\* inserted only when the collector returned Ok
InsertCollected(st, key, ok, value) == IF ok THEN Insert(st, key, value) ELSE st

\* the collector ran on the tree to its end, or returned an error (io: one
\* of its reads failed); on success the value is inserted and the new count
\* incremented
Collected(g, io, tree) ==
    LET out == CollectorOutput(storage, graph, CurrentTask(g), repository, globs, tree)
        ok == io /\ LookupOk(CurrentTask(g)) /\ out.ok
        st == InsertCollected([map |-> storage, count |-> inserts],
                              KeyOf(CurrentTask(g)), ok, out.value)
    IN /\ invoked' = invoked \cup {CurrentTask(g)}
       /\ storage' = st.map
       /\ inserts' = st.count
       /\ IF ok
          THEN /\ new_metric_count' = new_metric_count + 1
               /\ Move(g, AfterNew(g))
               /\ UNCHANGED errors
          ELSE /\ errors' = errors \cup {g}
               /\ Move(g, AfterError(g))
               /\ UNCHANGED new_metric_count

\* a drop that does not hand the worktree back
Released_Kept(pool, w) == pool

\* the drop of the pulled worktree attaches it to the pool again
Released(pool, w) == pool \cup {w}

\* collect on the worktree and the drop of the pulled worktree, for a base collector
CollectBase(g) ==
    /\ step = "collecting"
    /\ worker[g] = "holding"
    /\ worktree_pool' = Released(worktree_pool, temp_worktree[g])
    /\ temp_worktree' = [temp_worktree EXCEPT ![g] = 0]
    \* the HEAD a dropped worktree is left at is read by nobody: the next
    \* holder resets it before its collector runs
    /\ checked_out' = [checked_out EXCEPT ![temp_worktree[g]] = 0]
    /\ \E io \in BOOLEAN :
         Collected(g, io, TreeOf(repository, checked_out[temp_worktree[g]]))
    /\ UNCHANGED <<config, cache, output, run, state, step, graph, node_indices,
                   reused_metric_count, result, cache_hits, prefilled, first_run>>

CollectDerived(g) ==
    /\ step = "collecting"
    /\ worker[g] = "check"
    /\ ~SkipCollection(IsInStorage(g), disable_cache)
    /\ IsDerived(graph.nodes[CurrentTask(g)].collector_config)
    /\ \E io \in BOOLEAN : Collected(g, io, EmptyTree)
    /\ UNCHANGED <<config, cache, output, run, state, step, graph, node_indices,
                   worktree_pool, temp_worktree, checked_out, reused_metric_count, result,
                   cache_hits, prefilled, first_run>>

\* "let _: Vec<Result<()>> = ... .collect()": the results of the closures are dropped
CollectionResult(errs) == "Ok"

FinishCollection ==
    /\ step = "collecting"
    /\ \A g \in Groups : worker[g] = "returned"
    /\ result' = CollectionResult(errors)
    /\ state' = "PostCollection"
    /\ step' = "write_to_cache"
    /\ first_run' = IF run = "first"
                    THEN [done |-> TRUE, storage |-> storage, errors |-> errors,
                          reused |-> reused_metric_count, new |-> new_metric_count]
                    ELSE first_run
    /\ UNCHANGED <<config, cache, output, run, storage, graph, workers, inserts, cache_hits,
                   prefilled>>

(***************************************************************************)
(* execute_write_to_cache, execute_write_to_output                         *)
(***************************************************************************)
StoredTasks == {KeyOf(n) : n \in NodeIndices(graph)} \cap DOMAIN storage

\* a write that stores nothing
Written_Nothing(c) == c

\* the cache after cache.store was called for every node that has a value in
\* the storage
Written(c) ==
    [k \in DOMAIN c \cup StoredTasks |-> IF k \in StoredTasks THEN storage[k] ELSE c[k]]

ExecuteWriteToCache ==
    /\ step = "write_to_cache"
    /\ Accepts("write_to_cache", state)
    /\ cache' = IF disable_cache THEN cache ELSE Written(cache)
    /\ cache_files' = FilesOf(cache')
    /\ UNCHANGED <<store_call, lookup_call>>
    /\ git_calls' = git_calls \cup {IF "write_to_cache" \in git_calls
                                    THEN "write_to_cache again" ELSE "write_to_cache"}
    /\ step' = "write_to_output"
    /\ UNCHANGED <<metrics, commits, force_latest_commit, disable_cache, caller, remote_url,
                   ignore_mismatched_repo_url, offline, history, output, run, state,
                   storage, graph, workers, result, inserts, cache_hits, prefilled,
                   first_run, repository, globs>>

\* metric names taken without the filter on the collector
metric_names_Unfiltered(ms, collector) == [m \in 1..Len(ms) |-> m]

\* metric_names: the names of the metrics whose collector is the entry's
metric_names(ms, collector) ==
    SelectSeq([m \in 1..Len(ms) |-> m], LAMBDA m : ms[m].collector = collector)

\* the set_metric calls of "for v in storage", the entries taken in the order
\* the map hands them out
RECURSIVE SetMetricCalls(_, _, _)
SetMetricCalls(st, ms, keys) ==
    IF keys = {} THEN <<>>
    ELSE LET k == CHOOSE k \in keys : TRUE
             names == metric_names(ms, k[1])
         IN [i \in 1..Len(names) |->
                [metric_name |-> names[i], commit |-> k[2], value |-> st[k]]]
            \o SetMetricCalls(st, ms, keys \ {k})

\* Output::set_metric: the value is written under (metric name, commit)
set_metric(out, metric_name, commit, value) ==
    [w \in DOMAIN out \cup {<<metric_name, commit>>} |->
        IF w = <<metric_name, commit>> THEN value ELSE out[w]]

\* the output after the calls, made one after the other
RECURSIVE WriteCalls(_, _)
WriteCalls(out, calls) ==
    IF calls = <<>> THEN out
    ELSE WriteCalls(set_metric(out, calls[1].metric_name, calls[1].commit, calls[1].value),
                    Tail(calls))

ExecuteWriteToOutput ==
    /\ step = "write_to_output"
    /\ Accepts("write_to_output", state)
    /\ output' = WriteCalls(output, SetMetricCalls(storage, metrics, DOMAIN storage))
    /\ step' = "done"
    /\ UNCHANGED <<config, cache, run, state, storage, graph, workers, result, inserts,
                   cache_hits, prefilled, first_run>>

\* the program is started again on the same repository and configuration: the
\* process is back in IdleWithCommits with a new, empty storage
SecondRun ==
    /\ step = "done"
    /\ run = "first"
    /\ run' = "second"
    /\ state' = "IdleWithCommits"
    /\ step' = "prepare_for_collection"
    /\ storage' = Empty
    /\ inserts' = Empty
    /\ cache_hits' = Empty
    /\ prefilled' = Empty
    /\ graph' = EmptyGraph
    /\ node_indices' = <<>>
    /\ worktree_pool' = {}
    /\ position' = <<>>
    /\ worker' = <<>>
    /\ temp_worktree' = <<>>
    /\ checked_out' = <<>>
    /\ new_metric_count' = 0
    /\ reused_metric_count' = 0
    /\ errors' = {}
    /\ invoked' = {}
    /\ result' = "none"
    /\ UNCHANGED <<config, cache, output, first_run>>

Init ==
    /\ metrics \in MetricMaps
    /\ commits \in {[i \in CommitIds |-> Commit(i, t[i])] : t \in [CommitIds -> CommitTimes]}
    /\ force_latest_commit \in BOOLEAN
    /\ disable_cache \in BOOLEAN
    \* what an earlier run left: it had collected some of the collectors, and
    \* written some of the metrics, for the commits 1..seen the walk then returned
    /\ \E seen \in 0..NumCommits :
         /\ cache \in {[k \in keys \X (1..seen) |-> Cached] : keys \in SUBSET TaskKeys(metrics)}
         /\ output \in {[w \in names \X (1..seen) |-> FromOutput] :
                            names \in SUBSET (1..Len(metrics))}
    \* with the cache disabled neither is read: one content stands for all
    /\ disable_cache => cache = Empty /\ output = Empty
    /\ Fetched
    /\ Bare
    /\ Mounted
    /\ run = "first"
    /\ state = "IdleWithCommits"
    /\ step = "prepare_for_collection"
    /\ storage = Empty
    /\ graph = EmptyGraph
    /\ node_indices = <<>>
    /\ worktree_pool = {}
    /\ position = <<>>
    /\ worker = <<>>
    /\ temp_worktree = <<>>
    /\ checked_out = <<>>
    /\ new_metric_count = 0
    /\ reused_metric_count = 0
    /\ errors = {}
    /\ result = "none"
    /\ invoked = {}
    /\ inserts = Empty
    /\ cache_hits = Empty
    /\ prefilled = Empty
    /\ first_run = NoRun

Next ==
    \/ ExecutePrepareForCollection
    \/ BeginCollection
    \/ \E g \in Groups : Reuse(g)
    \/ \E g \in Groups : TryPull(g)
    \/ \E g \in Groups : RetryPull(g)
    \/ \E g \in Groups : CollectBase(g)
    \/ \E g \in Groups : CollectDerived(g)
    \/ FinishCollection
    \/ ExecuteWriteToCache
    \/ ExecuteWriteToOutput

Spec == Init /\ [][Next]_vars

(***************************************************************************)
(* The whole process: the phases from Initial on, called in a row by       *)
(* execute() or by the CLI, or one by one by a user of the API.            *)
(***************************************************************************)
\* a comparison that finds every URL to be the configured one
UrlMismatch_Never(url, reference) == FALSE

\* execute_initial: remote_url != self.reference.url
UrlMismatch(url, reference) == url # reference

\* the chain of execute() taken with the tags before the commits
Then_TagsFirst(op, st) ==
    CASE op = "initial" -> (IF st = "ReadyForFetch" THEN "fetch"
                            ELSE IF st = "ReadyForClone" THEN "clone" ELSE "failed")
      [] op \in {"fetch", "clone"} -> "collect_tags"
      [] op = "collect_tags"        -> "collect_commits"
      [] op = "collect_commits"     -> "prepare_for_collection"

\* execute(): the call that follows op, which left the process in state st
Then(op, st) ==
    CASE op = "initial" -> (IF st = "ReadyForFetch" THEN "fetch"
                            ELSE IF st = "ReadyForClone" THEN "clone" ELSE "failed")
      [] op \in {"fetch", "clone"} -> "collect_commits"
      [] op = "collect_commits"     -> "collect_tags"
      [] op = "collect_tags"        -> "prepare_for_collection"

\* an operation returns an error: the "?" of execute() returns it, the
\* process is dropped
Failed(error) ==
    /\ result' = error
    /\ step' = "failed"

process == <<metrics, force_latest_commit, disable_cache, cache, output, run, storage, graph,
             workers, inserts, cache_hits, prefilled, first_run, caller,
             ignore_mismatched_repo_url, offline, history, cache_files, store_call,
             lookup_call, repository, globs>>

ExecuteInitial ==
    /\ step = "initial"
    /\ caller \in {"execute", "api"}
    /\ Accepts("initial", state)
    /\ IF remote_url = "none"
       THEN /\ state' = "ReadyForClone"
            /\ step' = Then("initial", "ReadyForClone")
            /\ UNCHANGED result
       ELSE IF UrlMismatch(remote_url, ReferenceUrl)
       THEN Failed("Err") /\ UNCHANGED state
       ELSE /\ state' = "ReadyForFetch"
            /\ step' = Then("initial", "ReadyForFetch")
            /\ UNCHANGED result
    /\ UNCHANGED <<process, commits, remote_url, git_calls>>

\* a dispatch that refreshes a repository that is there, whatever the flag
Collect_Refresh(st, off) ==
    CASE st = "IdleWithoutCommits" -> "fetch"
      [] st = "ReadyForFetch"      -> "fetch"
      [] st = "ReadyForClone"      -> IF off THEN "failed" ELSE "clone"
      [] OTHER                     -> "failed"

\* the match of collect() in the CLI on the state initialize returned: the
\* operation it calls next, "failed" where it returns an error
Collect(st, off) ==
    CASE st = "IdleWithoutCommits" -> "collect_commits"
      [] st = "ReadyForFetch"      -> IF off THEN "failed" ELSE "fetch"
      [] st = "ReadyForClone"      -> IF off THEN "failed" ELSE "clone"
      [] OTHER                     -> "failed"

\* the state Initial{..}.initialize(ignore_mismatched_repo_url) returns, "Initial"
\* where it returns an error
Initialized(url, off, ignore) ==
    IF url = "none"
    THEN IF off THEN "Initial" ELSE "ReadyForClone"
    ELSE IF ~ignore /\ UrlMismatch(url, ReferenceUrl) THEN "Initial"
    ELSE IF off THEN "IdleWithoutCommits" ELSE "ReadyForFetch"

\* Initial{..}.initialize(ignore_mismatched_repo_url) followed by the match of
\* collect(), as the CLI calls them
Initialize ==
    /\ step = "initial"
    /\ caller = "main"
    /\ Accepts("initial", state)
    /\ state' = Initialized(remote_url, offline, ignore_mismatched_repo_url)
    /\ step' = Collect(state', offline)
    /\ result' = IF step' = "failed" THEN "Err" ELSE result
    /\ UNCHANGED <<process, commits, remote_url, git_calls>>

ExecuteFetch ==
    /\ step = "fetch"
    /\ Accepts("fetch", state)
    /\ git_calls' = git_calls \cup {"fetch"}
    /\ \/ /\ state' = "IdleWithoutCommits"
          /\ step' = Then("fetch", "IdleWithoutCommits")
          /\ UNCHANGED result
       \/ Failed("Err") /\ UNCHANGED state
    /\ UNCHANGED <<process, commits, remote_url>>

ExecuteClone ==
    /\ step = "clone"
    /\ Accepts("clone", state)
    /\ git_calls' = git_calls \cup {"clone"}
    /\ \/ /\ state' = "IdleWithoutCommits"
          /\ remote_url' = ReferenceUrl
          /\ step' = Then("clone", "IdleWithoutCommits")
          /\ UNCHANGED result
       \/ Failed("Err") /\ UNCHANGED <<state, remote_url>>
    /\ UNCHANGED <<process, commits>>

\* a revision that resolves whatever the branch holds
Resolves_Always(commit_count) == TRUE

\* revparse_ext("origin/<branch>") of reset_hard finds an object: the branch
\* points to a commit
Resolves(commit_count) == commit_count > 0

\* get_all_commits returns the commits of one day; the state gets a new storage
ExecuteCollectCommits ==
    /\ step = "collect_commits"
    /\ Accepts("collect_commits", state)
    /\ \/ /\ Resolves(history)
          /\ git_calls' = git_calls \cup {"get_all_commits"}
          /\ commits' = [i \in 1..history |-> Commit(i, 0)]
          /\ state' = "IdleWithCommits"
          /\ step' = Then("collect_commits", "IdleWithCommits")
          /\ UNCHANGED result
       \/ \* find_main_branch, reset_hard or the walk returned an error
          /\ git_calls' \in {git_calls} \cup
                 (IF Resolves(history) THEN {git_calls \cup {"get_all_commits"}} ELSE {})
          /\ Failed("Err")
          /\ UNCHANGED <<state, commits>>
    /\ UNCHANGED <<process, remote_url>>

ExecuteCollectTags ==
    /\ step = "collect_tags"
    /\ Accepts("collect_tags", state)
    /\ git_calls' = git_calls \cup {"get_all_commit_tags"}
    /\ \/ /\ step' = Then("collect_tags", state)
          /\ UNCHANGED result
       \/ Failed("Err")
    /\ UNCHANGED <<process, commits, remote_url, state>>

\* the else branch of every operation: Err(anyhow!("Invalid state"))
InvalidState(op) ==
    /\ step = op
    /\ ~Accepts(op, state)
    /\ Failed("InvalidState")
    /\ UNCHANGED <<process, commits, remote_url, git_calls, state>>

\* a user of the API picks the operation to call next
Request(op) ==
    /\ caller = "api"
    /\ step \notin {op, "collecting", "failed"}
    /\ step' = op
    /\ UNCHANGED <<process, commits, remote_url, git_calls, state, result>>

ProcessInit ==
    /\ metrics = <<Metric(K("TotalLoc"), "PerCommit")>>
    /\ commits = <<>>
    /\ force_latest_commit = FALSE
    /\ disable_cache = FALSE
    /\ cache \in {Empty, [k \in {<<K("Loc"), 1>>} |-> Cached]}
    /\ output = Empty
    /\ caller \in {"execute", "main", "api"}
    /\ remote_url \in {"none", "a", "b"}
    /\ ignore_mismatched_repo_url \in BOOLEAN
    \* the flags of the CLI: --ignore-mismatched-repo-url requires --offline
    /\ offline \in (IF caller = "main"
                    THEN (IF ignore_mismatched_repo_url THEN {TRUE} ELSE BOOLEAN)
                    ELSE {FALSE})
    /\ history \in {0, NumCommits}
    /\ git_calls = {}
    /\ Bare
    /\ state = "Initial"
    /\ step = "initial"
    /\ Mounted
    /\ Blank

ProcessNext ==
    \/ ExecuteInitial
    \/ Initialize
    \/ ExecuteFetch
    \/ ExecuteClone
    \/ ExecuteCollectCommits
    \/ ExecuteCollectTags
    \/ \E op \in Operations : InvalidState(op)
    \/ \E op \in Operations : Request(op)
    \/ Next

ProcessSpec == ProcessInit /\ [][ProcessNext]_vars

(***************************************************************************)
(* The FileCache on its own: one thread calls store once, another calls    *)
(* lookup again and again, each call a sequence of file operations.        *)
(***************************************************************************)
CacheKeys == {K("Loc"), KP("PatternOccurences", "p")} \X CommitIds

\* the entries a lookup finds in the files
View(files) ==
    [k \in {k \in CacheKeys : /\ Lookup(files, k[1], k[2]).ok
                              /\ Lookup(files, k[1], k[2]).value # "None"} |->
        Lookup(files, k[1], k[2]).value]

evaluator == <<metrics, commits, force_latest_commit, disable_cache, output, run, state, step,
               storage, graph, workers, result, inserts, cache_hits, prefilled, first_run,
               caller, remote_url, ignore_mismatched_repo_url, git_calls, offline, history,
               repository, globs>>

\* store() up to File::create: the path, create_dir_all, the value as JSON
Store(key, commit, value) ==
    /\ step = "cache"
    /\ store_call.pc = "none"
    /\ store_call' = [pc |-> "create", key |-> key, commit |-> commit, value |-> value,
                      before |-> cache_files]
    /\ UNCHANGED <<evaluator, cache, cache_files, lookup_call>>

\* File::create(file_path)?: the file is there and empty, whatever it held
FileCreate ==
    /\ step = "cache"
    /\ store_call.pc = "create"
    /\ \/ /\ cache_files' = (get_data_point_path(store_call.key, store_call.commit) :> <<>>)
                                @@ cache_files
          /\ store_call' = [store_call EXCEPT !.pc = "write"]
       \/ /\ store_call' = [store_call EXCEPT !.pc = "failed"]
          /\ UNCHANGED cache_files
    /\ cache' = View(cache_files')
    /\ UNCHANGED <<evaluator, lookup_call>>

\* file.write_all(contents.as_bytes())?: one write of the loop, or its error
WriteAll ==
    /\ step = "cache"
    /\ store_call.pc = "write"
    /\ LET p == get_data_point_path(store_call.key, store_call.commit)
           contents == Encode(store_call.value)
       IN \/ /\ cache_files' = [cache_files EXCEPT
                                   ![p] = Append(@, contents[Len(@) + 1])]
             /\ store_call' = [store_call EXCEPT
                                  !.pc = IF cache_files'[p] = contents THEN "done" ELSE "write"]
          \/ /\ store_call' = [store_call EXCEPT !.pc = "failed"]
             /\ UNCHANGED cache_files
    /\ cache' = View(cache_files')
    /\ UNCHANGED <<evaluator, lookup_call>>

\* is a store of this entry between File::create and its return
Storing(key, commit) ==
    /\ store_call.pc = "write"
    /\ store_call.key = key
    /\ store_call.commit = commit

\* what a lookup keeps of the store it runs beside: the result a lookup had
\* before the store, and the value being stored
Beside(key, commit) ==
    IF Storing(key, commit)
    THEN [overlap |-> TRUE, old |-> Lookup(store_call.before, key, commit),
          new |-> [ok |-> TRUE, value |-> store_call.value]]
    ELSE [overlap |-> FALSE]

\* lookup() up to "if !file_path.exists() { return Ok(None) }"
LookupExists(key, commit) ==
    /\ step = "cache"
    /\ lookup_call.pc \in {"none", "returned"}
    /\ lookup_call' =
          IF get_data_point_path(key, commit) \in DOMAIN cache_files
          THEN [pc |-> "open", key |-> key, commit |-> commit]
          ELSE [pc |-> "returned", key |-> key, commit |-> commit,
                result |-> [ok |-> TRUE, value |-> "None"], beside |-> Beside(key, commit)]
    /\ UNCHANGED <<evaluator, cache, cache_files, store_call>>

\* File::open, read_to_end, String::from_utf8, serde_json::from_str
LookupRead ==
    /\ step = "cache"
    /\ lookup_call.pc = "open"
    /\ lookup_call' =
          [pc |-> "returned", key |-> lookup_call.key, commit |-> lookup_call.commit,
           result |-> Parsed(cache_files[get_data_point_path(lookup_call.key,
                                                             lookup_call.commit)]),
           beside |-> Beside(lookup_call.key, lookup_call.commit)]
    /\ UNCHANGED <<evaluator, cache, cache_files, store_call>>

\* the cache directory as earlier runs left it: entries, and at most one file
\* that holds the beginning of a value
CacheInit ==
    /\ metrics = <<Metric(K("Loc"), "PerCommit")>>
    /\ commits = [i \in CommitIds |-> Commit(i, 0)]
    /\ force_latest_commit = FALSE
    /\ disable_cache = FALSE
    /\ output = Empty
    /\ state = "IdleWithCommits"
    /\ step = "cache"
    /\ Fetched
    /\ Bare
    /\ Blank
    /\ \E keys \in SUBSET CacheKeys, cut \in SUBSET CacheKeys :
         /\ Cardinality(cut) <= 1
         /\ cache_files = [p \in {get_data_point_path(k[1], k[2]) : k \in cut} |-> <<"{">>]
                              @@ FilesOf([k \in keys |-> Cached])
    /\ cache = View(cache_files)
    /\ store_call = NoCall
    /\ lookup_call = NoCall

CacheNext ==
    \/ \E k \in CacheKeys, v \in {Fresh, FromOutput} : Store(k[1], k[2], v)
    \/ FileCreate
    \/ WriteAll
    \/ \E k \in CacheKeys : LookupExists(k[1], k[2])
    \/ LookupRead

CacheSpec == CacheInit /\ [][CacheNext]_vars

\* the collection under a fair scheduler: a worker that can take a step of its
\* loop takes it in the end, and the thread that waits for the workers goes on
\* once they all returned
WorkerStep(g) ==
    Reuse(g) \/ TryPull(g) \/ RetryPull(g) \/ CollectBase(g) \/ CollectDerived(g)
Fairness ==
    /\ \A g \in CommitIds : WF_vars(g \in Groups /\ WorkerStep(g))
    /\ WF_vars(FinishCollection)

\* a first commit of one day and the others of the next, no previous output
FairInit ==
    /\ Init
    /\ ~force_latest_commit
    /\ output = Empty
    /\ \A i \in CommitIds : commits[i].time = (IF i = 1 THEN 0 ELSE 24)
FairSpec == FairInit /\ [][Next]_vars /\ Fairness

\* two runs in a row, the first one starting without cache and output
RerunInit == Init /\ cache = Empty /\ output = Empty
RerunNext == Next \/ SecondRun
RerunSpec == RerunInit /\ [][RerunNext]_vars

(***************************************************************************)
(* The collectors that look for the value of the previous commit: a metric *)
(* collected once a day over three commits, the second one on the day of   *)
(* the first, over every content of the repository.                        *)
(***************************************************************************)
TemporalCommits == <<Commit(1, 0), Commit(2, 1), Commit(3, 24)>>

\* what a run that collected the first commit alone left in the cache
EarlierRun(key, repo, globset) ==
    [k \in {<<key, 1>>} |->
        CollectorOutput(Empty, [nodes |-> <<Task(key, 1)>>, edges |-> <<>>], 1,
                        repo, globset, TreeOf(repo, 1)).value]

\* the trees the commits are drawn from: what the metric's collectors do not
\* tell apart is left out
TemporalTrees(key) ==
    IF key.kind = "TotalCargoDeps"
    THEN {t \in Trees : "a.rs" \notin DOMAIN t}
    ELSE {t \in Trees : "Cargo.lock" \in DOMAIN t => t["Cargo.lock"] = Lines}

TemporalInit ==
    /\ metrics \in {<<Metric(K("TotalCargoDeps"), "Daily")>>,
                    <<Metric(KP("TotalPatternOccurences", "p"), "Daily")>>}
    /\ commits = TemporalCommits
    /\ force_latest_commit = FALSE
    /\ disable_cache = FALSE
    /\ output = Empty
    /\ Fetched
    /\ repository \in [1..Len(TemporalCommits) -> TemporalTrees(metrics[1].collector)]
    /\ globs \in (IF metrics[1].collector.kind = "TotalCargoDeps"
                  THEN {Files} ELSE {Files, {"a.rs"}})
    /\ cache \in {Empty,
                  EarlierRun(DependencyOf(metrics[1].collector), repository, globs),
                  EarlierRun(metrics[1].collector, repository, globs)}
    /\ Mounted
    /\ state = "IdleWithCommits"
    /\ step = "prepare_for_collection"
    /\ Blank

TemporalSpec == TemporalInit /\ [][Next]_vars

(***************************************************************************)
(* The graph builder on its own: build_collection_execution_graph applied  *)
(* to a metric map, a commit list and the flag, as its unit tests call it. *)
(***************************************************************************)
MaxCommits == 3

\* 2012-12-31T00, 2012-12-31T01, 2013-01-01, 2013-01-02, 2013-01-31, 2013-02-01
GraphTimes == {0, 1, 24, 48, 744, 768}

\* metrics that share a collector, or of which one needs the other's collector
SharedMetrics ==
    {Metric(k, f) : k \in {K("Loc"), K("TotalLoc")}, f \in {"PerCommit", "Daily", "Weekly"}}

GraphMetricMaps ==
    {<<Metric(k, f)>> : k \in CollectorConfig, f \in Frequency}
    \cup {<<a, b>> : a \in SharedMetrics, b \in SharedMetrics}

GraphCommitLists ==
    UNION {{[i \in 1..n |-> Commit(i, t[i])] : t \in [1..n -> GraphTimes]} : n \in 1..MaxCommits}

GraphInit ==
    /\ metrics \in GraphMetricMaps
    /\ commits \in GraphCommitLists
    /\ force_latest_commit \in BOOLEAN
    /\ disable_cache = TRUE
    /\ cache = Empty
    /\ output = Empty
    /\ state = "IdleWithCommits"
    /\ step = "build_graph"
    /\ Fetched
    /\ Bare
    /\ Mounted
    /\ Blank

BuildGraph ==
    /\ step = "build_graph"
    /\ graph' = build_collection_execution_graph(metrics, commits, force_latest_commit)
    /\ step' = "built"
    /\ UNCHANGED <<config, cache, output, run, state, storage, workers, result, inserts,
                   cache_hits, prefilled, first_run>>

GraphNext == BuildGraph
GraphSpec == GraphInit /\ [][GraphNext]_vars

\* the tasks of a graph, and its edges between tasks
NodeSet(g) == {g.nodes[n] : n \in NodeIndices(g)}
EdgeSet(g) ==
    {[source |-> g.nodes[g.edges[e].source], target |-> g.nodes[g.edges[e].target],
      distance |-> g.edges[e].distance] : e \in 1..Len(g.edges)}

(***************************************************************************)
(* Properties of the evaluator                                             *)
(***************************************************************************)
Range(seq) == {seq[i] : i \in 1..Len(seq)}
GroupOf(n) == CHOOSE g \in Groups : n \in Range(node_indices[g])
CommitOfGroup(g) == graph.nodes[node_indices[g][1]].commit_hash
Collecting == step = "collecting"
CollectionOver == step \in {"write_to_cache", "write_to_output", "done"}
\* the worker of group g went through every task of its group
WentThrough(g) == worker[g] = "returned" /\ g \notin errors /\ position[g] = Len(node_indices[g])

\* C1: under every interleaving of the commit groups, whenever the collector
\* of a task is invoked, every task it has a distance-0 edge from on its own
\* commit already has its value in the storage (collected or prefilled).
C1_DependenciesBeforeCollector ==
    [][Collecting =>
        \A n \in invoked' \ invoked :
            \A d \in DependencySources(graph, n) : KeyOf(d) \in DOMAIN storage]_vars

\* a collector with a dependency was invoked, in a run where another group is
\* still at work
C1_Witness ==
    /\ Collecting
    /\ \E n \in invoked : DependencySources(graph, n) # {}
    /\ \E g \in Groups : worker[g] # "returned"

\* C2: when the evaluator has finished, the storage holds an entry for every
\* task of the graph, except for the tasks of a commit group in which a
\* collector (or the reset before it) returned an error.
C2_AllTasksStored ==
    CollectionOver =>
        \A n \in NodeIndices(graph) : KeyOf(n) \in DOMAIN storage \/ GroupOf(n) \in errors

\* C3: with the cache enabled, a task found in the storage is not collected,
\* and the worker then goes on with the remaining tasks of the group: a worker
\* whose closure returned without an error went through its whole group.
C3_ReusedThenContinues ==
    (step \in {"collecting", "write_to_cache", "write_to_output", "done"} /\ ~disable_cache) =>
        /\ \A n \in invoked : KeyOf(n) \notin DOMAIN prefilled
        /\ \A g \in Groups : (worker[g] = "returned" /\ g \notin errors) => WentThrough(g)

\* C4: if a collector of some commit group returned an error, the evaluator
\* returns an error to its caller.
C4_ErrorReturned == (CollectionOver /\ errors # {}) => result = "Err"

\* C5: once a collector of a commit group returned an error, no collector of a
\* later task of this group is invoked and nothing more is inserted in the
\* storage for the group's commit.
C5_GroupStopsAtError ==
    [][Collecting =>
        \A g \in errors :
            /\ \A n \in invoked' \ invoked : GroupOf(n) # g
            /\ \A k \in DOMAIN storage' :
                 k[2] = CommitOfGroup(g) => k \in DOMAIN storage /\ storage'[k] = storage[k]]_vars

\* a group stopped by an error at a task that is not its last one, another
\* group having collected a value since
C5_Witness ==
    /\ CollectionOver
    /\ \E g \in errors : position[g] < Len(node_indices[g])
    /\ new_metric_count > 0

\* C6: an error in one commit group does not stop the others: every task of
\* every group in which nothing erred is processed.
C6_OtherGroupsComplete ==
    (CollectionOver /\ errors # {}) => \A g \in Groups \ errors : WentThrough(g)

\* C7: a second run on the store and cache a first successful run left, with
\* the cache enabled, ends with the same storage for every task, invokes no
\* collector and counts every task of the graph as reused.
C7_SecondRunReusesAll ==
    (/\ run = "second"
     /\ CollectionOver
     /\ ~disable_cache
     /\ first_run.errors = {}
     /\ \A n \in NodeIndices(graph) : KeyOf(n) \in DOMAIN first_run.storage) =>
        /\ \A n \in NodeIndices(graph) :
              KeyOf(n) \in DOMAIN storage /\ storage[KeyOf(n)] = first_run.storage[KeyOf(n)]
        /\ invoked = {}
        /\ reused_metric_count = Len(graph.nodes)

\* C8: with the cache enabled, every (key, commit) the cache lookup hit during
\* the prefill is in the storage at the end of the run, with the value the
\* cache returned.
C8_CacheHitsKept ==
    (CollectionOver /\ ~disable_cache) =>
        \A k \in DOMAIN cache_hits : k \in DOMAIN storage /\ storage[k] = cache_hits[k]

\* a finished run in which a cache hit replaced a value taken from the
\* previous output, and in which a collector computed another value
C8_Witness ==
    /\ CollectionOver
    /\ \E k \in DOMAIN cache_hits : prefilled[k] >= 2
    /\ new_metric_count > 0

C10_WorktreeExclusive ==
    /\ \A g1, g2 \in Groups :
          (g1 # g2 /\ temp_worktree[g1] # 0) => temp_worktree[g1] # temp_worktree[g2]
    /\ \A g \in Groups : temp_worktree[g] # 0 => temp_worktree[g] \notin worktree_pool
    /\ Cardinality({g \in Groups : temp_worktree[g] # 0}) <= PoolSize

\* one worker holds a worktree while another one waits for it
C10_Witness ==
    \E g1, g2 \in Groups : worker[g1] = "holding" /\ worker[g2] = "spin"

(***************************************************************************)
(* Properties of the graph builder                                         *)
(***************************************************************************)
Built == step = "built"

\* C14: the graph the builder produces is acyclic: taking away, again and
\* again, the nodes no remaining node has an edge to leaves no node, and in
\* the topological order of the traversal every edge, dependency or temporal,
\* goes from an earlier node to a later one.
C14_Acyclic ==
    Built =>
        LET RECURSIVE Peel(_)
            Peel(S) ==
                LET free == {n \in S : IncomingSources(graph, n) \cap S = {}}
                IN IF free = {} THEN S ELSE Peel(S \ free)
            order == Topo(graph)
            At(n) == CHOOSE i \in 1..Len(order) : order[i] = n
        IN /\ Peel(NodeIndices(graph)) = {}
           /\ Range(order) = NodeIndices(graph)
           /\ \A e \in 1..Len(graph.edges) :
                 At(graph.edges[e].source) < At(graph.edges[e].target)

\* a built graph with a dependency edge and a temporal edge over skipped commits
C14_Witness ==
    /\ Built
    /\ \E e \in 1..Len(graph.edges) :
          graph.nodes[graph.edges[e].source].commit_hash
            = graph.nodes[graph.edges[e].target].commit_hash
    /\ \E e \in 1..Len(graph.edges) : graph.edges[e].distance >= 1

\* C15: the graph holds at most one node for a (collector, commit) pair, also
\* when metrics share a collector or one metric's collector is the dependency
\* of another's.
C15_OneNodePerTask ==
    Built => \A i, j \in NodeIndices(graph) : graph.nodes[i] = graph.nodes[j] => i = j

\* a graph built for two metrics, one of Loc and one of TotalLoc, which needs Loc
C15_Witness ==
    /\ Built
    /\ Len(metrics) = 2
    /\ metrics[1].collector = K("Loc")
    /\ metrics[2].collector = K("TotalLoc")
    /\ Len(graph.nodes) >= 4

\* C16: a node of a kind with a declared base has exactly one incoming edge
\* from a node of its own commit, of distance 0, and its source is the node of
\* the declared base for this commit; a node of a kind without a declared base
\* has no incoming edge from a node of its own commit.
C16_DeclaredDependencies ==
    Built =>
        \A n \in NodeIndices(graph) :
            LET key == graph.nodes[n].collector_config
                same == {e \in 1..Len(graph.edges) :
                           /\ graph.edges[e].target = n
                           /\ graph.nodes[graph.edges[e].source].commit_hash
                                = graph.nodes[n].commit_hash}
                base == CASE key.kind = "TotalLoc" -> {K("Loc")}
                          [] key.kind = "TotalFileCount" -> {K("FileList")}
                          [] key.kind = "TotalPatternOccurences"
                                -> {KP("PatternOccurences", key.pattern)}
                          [] key.kind \in {"PatternOccurences", "TotalCargoDeps",
                                           "ChangedFilesLoc"} -> {K("ChangedFiles")}
                          [] OTHER -> {}
            IN IF base = {} THEN same = {}
               ELSE /\ Cardinality(same) = 1
                    /\ \A e \in same :
                          /\ graph.edges[e].distance = 0
                          /\ graph.nodes[graph.edges[e].source].collector_config \in base

\* a graph with a node that has a dependency edge and a temporal edge, and a
\* node of a kind without a declared base that has a temporal edge
C16_Witness ==
    /\ Built
    /\ \E n \in NodeIndices(graph) :
          /\ HasDependency(graph.nodes[n].collector_config)
          /\ Cardinality({e \in 1..Len(graph.edges) : graph.edges[e].target = n}) >= 2
    /\ \E n \in NodeIndices(graph) :
          /\ ~HasDependency(graph.nodes[n].collector_config)
          /\ \E e \in 1..Len(graph.edges) : graph.edges[e].target = n

\* C17: for a single metric of frequency f and without force_latest_commit,
\* the commits with a node for the metric's collector are exactly the commits
\* that come first, by time and then by place in the list, among the commits
\* of their bucket of f; with PerCommit every commit is one.
C17_FirstOfEachBucket ==
    (Built /\ Len(metrics) = 1 /\ ~force_latest_commit) =>
        LET f == metrics[1].frequency
            Bucket(t) ==
                CASE f = "PerCommit" -> <<>>
                  [] f = "Yearly"    -> <<YearCe(t)>>
                  [] f = "Monthly"   -> <<YearCe(t), Month0(t)>>
                  [] f = "Weekly"    -> <<YearCe(t), Month0(t), IsoWeek(t)>>
                  [] f = "Daily"     -> <<YearCe(t), Month0(t), IsoWeek(t), Day0(t)>>
                  [] f = "Hourly"    -> <<YearCe(t), Month0(t), IsoWeek(t), Day0(t), Hour(t)>>
            Before(i, j) ==
                \/ commits[i].time < commits[j].time
                \/ commits[i].time = commits[j].time /\ i < j
            first == {commits[j].id : j \in
                        {j \in 1..Len(commits) :
                            \/ f = "PerCommit"
                            \/ \A i \in 1..Len(commits) :
                                  Before(i, j) => Bucket(commits[i].time) # Bucket(commits[j].time)}}
        IN {t.commit_hash : t \in {t \in NodeSet(graph) :
                                     t.collector_config = metrics[1].collector}} = first

\* a graph built for one metric and three commits, of which the second of a
\* bucket was skipped and a later one, of another bucket, selected
C17_Witness ==
    /\ Built
    /\ Len(metrics) = 1
    /\ ~force_latest_commit
    /\ metrics[1].frequency \notin {"PerCommit"}
    /\ Len(commits) = 3
    /\ Cardinality({t \in NodeSet(graph) : t.collector_config = metrics[1].collector}) = 2
    /\ \E e \in 1..Len(graph.edges) : graph.edges[e].distance = 1

\* C18: with force_latest_commit the commit that is last by time (and by
\* place in the list among equal times) has a node for the collector of every
\* metric, and the nodes of the other commits are those of the graph built
\* without the flag.
C18_ForceLatest ==
    (Built /\ force_latest_commit) =>
        LET After(i, j) ==
                \/ commits[i].time > commits[j].time
                \/ commits[i].time = commits[j].time /\ i > j
            last == CHOOSE j \in 1..Len(commits) :
                        \A i \in 1..Len(commits) : ~After(i, j)
            unforced == build_collection_execution_graph(metrics, commits, FALSE)
            Others(g) == {t \in NodeSet(g) : t.commit_hash # commits[last].id}
        IN /\ \A m \in 1..Len(metrics) :
                 Task(metrics[m].collector, commits[last].id) \in NodeSet(graph)
           /\ Others(graph) = Others(unforced)

\* a graph built with the flag that has a node the graph built without it lacks
C18_Witness ==
    /\ Built
    /\ force_latest_commit
    /\ NodeSet(graph) # NodeSet(build_collection_execution_graph(metrics, commits, FALSE))

\* C19: the graph does not depend on the order in which the metric map is
\* iterated: built from the same entries in the other order, it has the same
\* nodes and the same edges with the same distances.
C19_OrderIndependent ==
    (Built /\ Len(metrics) = 2) =>
        LET other == build_collection_execution_graph(<<metrics[2], metrics[1]>>, commits,
                                                      force_latest_commit)
        IN /\ NodeSet(other) = NodeSet(graph)
           /\ EdgeSet(other) = EdgeSet(graph)

(***************************************************************************)
(* Progress of the evaluator                                               *)
(***************************************************************************)
\* C11: under a fair scheduler, with collectors that return, a worker that
\* waits for a worktree gets one in the end (it leaves the try_pull loop: it
\* holds the worktree for its collector, or the reset of the worktree failed
\* and its closure returned), a worktree taken from the pool is back in the
\* pool in the end, and the collection of all commit groups comes to its end.
C11_EvaluationTerminates ==
    /\ \A g \in CommitIds :
          (Collecting /\ g \in Groups /\ worker[g] = "spin")
            ~> (g \in Groups /\ worker[g] \in {"holding", "returned"})
    /\ \A w \in Worktrees : (Collecting /\ w \notin worktree_pool) ~> (w \in worktree_pool)
    /\ Collecting ~> CollectionOver

\* a worker waits for the worktree another worker holds, after a first
\* worktree was already handed back
C11_Witness ==
    /\ \E g1, g2 \in Groups : worker[g1] = "spin" /\ worker[g2] = "holding"
    /\ new_metric_count > 0

(***************************************************************************)
(* Properties of the process                                               *)
(***************************************************************************)
\* C12: in a call of execute the phases run in the order initial, then fetch
\* or clone (fetch from ReadyForFetch, clone from ReadyForClone, never both),
\* collect_commits, collect_tags, prepare_for_collection, collection,
\* write_to_cache, write_to_output; no phase is gone back to, and after a
\* phase that failed no step is taken.
C12_PhasesInOrder ==
    [][caller = "execute" =>
        /\ \/ step = "collecting" /\ step' = "collecting"
           \/ step \notin {"failed", "done"} /\ step' = "failed"
           \/ <<step, step'>> \in
                 {<<"initial", "fetch">>, <<"initial", "clone">>,
                  <<"fetch", "collect_commits">>, <<"clone", "collect_commits">>,
                  <<"collect_commits", "collect_tags">>,
                  <<"collect_tags", "prepare_for_collection">>,
                  <<"prepare_for_collection", "collection">>,
                  <<"collection", "collecting">>, <<"collecting", "write_to_cache">>,
                  <<"write_to_cache", "write_to_output">>, <<"write_to_output", "done">>}
        /\ step' = "fetch" => state' = "ReadyForFetch"
        /\ step' = "clone" => state' = "ReadyForClone"
        /\ ~({"fetch", "clone"} \subseteq git_calls')]_vars

\* a call of execute that cloned the repository and went to its end
C12_Witness ==
    /\ caller = "execute"
    /\ step = "done"
    /\ "clone" \in git_calls
    /\ new_metric_count > 0

\* C13: an operation called in a state other than its source state returns
\* the invalid-state error and does nothing else; and no fetch, clone, commit
\* or tag enumeration, change of the storage, cache write or output write
\* happens from a state other than the source state of its operation.
C13_InvalidStateNoEffect ==
    [][LET designated ==
               [op \in Operations |->
                   CASE op = "initial" -> "Initial"
                     [] op = "fetch" -> "ReadyForFetch"
                     [] op = "clone" -> "ReadyForClone"
                     [] op = "collect_commits" -> "IdleWithoutCommits"
                     [] op \in {"collect_tags", "prepare_for_collection"} -> "IdleWithCommits"
                     [] op = "collection" -> "ReadyForCollection"
                     [] op \in {"write_to_cache", "write_to_output"} -> "PostCollection"]
           untouched == UNCHANGED <<state, storage, cache, output, git_calls, remote_url,
                                    commits, graph>>
           request == caller = "api" /\ step' \in Operations /\ untouched /\ UNCHANGED result
       IN /\ (step \in Operations /\ state # designated[step] /\ ~request) =>
                (result' = "InvalidState" /\ step' = "failed" /\ untouched)
          /\ \A call \in git_calls' \ git_calls :
                state = designated[CASE call = "get_all_commits" -> "collect_commits"
                                     [] call = "get_all_commit_tags" -> "collect_tags"
                                     [] call = "write_to_cache again" -> "write_to_cache"
                                     [] OTHER -> call]
          /\ cache' # cache => state = "PostCollection"
          /\ output' # output => state = "PostCollection"
          /\ storage' # storage => state \in {"IdleWithCommits", "ReadyForCollection"}]_vars

\* an operation was called in a state that is not its source state, after the
\* storage was filled
C13_Witness ==
    /\ result = "InvalidState"
    /\ step = "failed"
    /\ state = "ReadyForCollection"
    /\ DOMAIN storage # {}

\* C20: when the reference directory is a repository whose remote URL is not
\* the configured one and the mismatch is not to be ignored, the
\* initialisation fails and nothing is fetched, cloned, enumerated or
\* collected; when the mismatch is to be ignored, the initialisation of the
\* CLI does not fail.
C20_MismatchedUrl ==
    (caller \in {"execute", "main"} /\ remote_url \notin {"none", ReferenceUrl}) =>
        /\ ~ignore_mismatched_repo_url =>
              /\ state = "Initial"
              /\ step \in {"initial", "failed"}
              /\ git_calls = {}
              /\ commits = <<>>
              /\ invoked = {}
              /\ DOMAIN storage = {}
        /\ (ignore_mismatched_repo_url /\ caller = "main") =>
              ~(state = "Initial" /\ step = "failed")

\* the initialisation of the CLI failed on a reference directory with another
\* remote URL
C20_Witness ==
    /\ caller = "main"
    /\ remote_url \notin {"none", ReferenceUrl}
    /\ ~ignore_mismatched_repo_url
    /\ step = "failed"
    /\ result = "Err"
\* C21: with offline set, a run of the CLI never fetches or clones; on a
\* reference directory that is a repository the initialisation goes to
\* IdleWithoutCommits and the run goes on with the enumeration of the commits
\* (unless the remote URL is refused), and on one that is no repository the
\* run fails.
C21_Offline ==
    /\ []((caller = "main" /\ offline) => git_calls \cap {"fetch", "clone"} = {})
    /\ [][(caller = "main" /\ offline /\ step = "initial" /\ step' # step) =>
            IF remote_url = "none"
            THEN step' = "failed" /\ result' = "Err" /\ state' = "Initial"
            ELSE \/ state' = "IdleWithoutCommits" /\ step' = "collect_commits"
                 \/ /\ remote_url # ReferenceUrl
                    /\ ~ignore_mismatched_repo_url
                    /\ step' = "failed"]_vars

\* an offline run of the CLI on a repository enumerated the commits and ended
C21_Witness ==
    /\ caller = "main"
    /\ offline
    /\ remote_url # "none"
    /\ "get_all_commits" \in git_calls
    /\ step = "done"

C23_CacheWritten ==
    /\ []((~disable_cache /\ "write_to_cache" \in git_calls) =>
            \A n \in NodeIndices(graph) :
                KeyOf(n) \in DOMAIN storage =>
                    KeyOf(n) \in DOMAIN cache /\ cache[KeyOf(n)] = storage[KeyOf(n)])
    /\ [][(~disable_cache /\ "write_to_cache" \in git_calls /\ state = "PostCollection") =>
            cache' = cache]_vars

\* write_to_cache ran twice on a storage that holds a value collected in this run
C23_Witness ==
    /\ ~disable_cache
    /\ "write_to_cache again" \in git_calls
    /\ \E n \in NodeIndices(graph) :
          KeyOf(n) \in DOMAIN storage /\ storage[KeyOf(n)] = Fresh
(***************************************************************************)
(* Properties of the FileCache                                             *)
(***************************************************************************)
\* C24: a lookup of an entry that has no file returns "absent" and no error; a
\* lookup of a file whose bytes are no value returns an error; a lookup of a
\* file that holds a value returns the value.
C24_LookupResult ==
    [][(lookup_call'.pc = "returned" /\ lookup_call' # lookup_call) =>
        LET p == get_data_point_path(lookup_call'.key, lookup_call'.commit)
            r == lookup_call'.result
        IN IF p \notin DOMAIN cache_files THEN r = [ok |-> TRUE, value |-> "None"]
           ELSE IF \E v \in CollectorValues : cache_files[p] = <<"{", v, "}">>
           THEN r.ok /\ <<"{", r.value, "}">> = cache_files[p]
           ELSE ~r.ok]_vars

\* with no store under way, one lookup returned an error on a file that holds
\* the beginning of a value
C24_Witness ==
    /\ store_call = NoCall
    /\ lookup_call.pc = "returned"
    /\ ~lookup_call.result.ok
    /\ cache_files[get_data_point_path(lookup_call.key, lookup_call.commit)] = <<"{">>

\* C25: a lookup that reads an entry while a store of the same entry is under
\* way returns what a lookup returned before the store (absent, or the old
\* value) or the new value, and no error.
C25_AtomicStore ==
    (/\ lookup_call.pc = "returned"
     /\ lookup_call.beside.overlap
     /\ lookup_call.beside.old.ok) =>
        lookup_call.result \in {lookup_call.beside.old, lookup_call.beside.new}

C29_ErrorLeavesStore ==
    [][\A g \in DOMAIN worker :
          (g \in errors' /\ g \notin errors /\ invoked' # invoked)
             => (storage' = storage /\ inserts' = inserts)]_vars

\* a collector was invoked and returned an error next to a store that holds
\* entries, and its task has no entry
C29_Witness ==
    /\ step = "collecting"
    /\ storage # <<>>
    /\ \E g \in errors :
          /\ CurrentTask(g) \in invoked
          /\ KeyOf(CurrentTask(g)) \notin DOMAIN storage

\* C30: while a base collector runs for a task, its worker holds a worktree
\* that is out of the pool, that no other worker holds, and whose HEAD is at
\* exactly the task's commit; the worker took it from the pool itself, and
\* until the collector has returned nobody resets it or takes it away.  A
\* worker at a derived collector holds no worktree, and the invocation of a
\* derived collector leaves the pool and the worktrees as they are.
C30_WorktreeOfBaseCollector ==
    /\ [](\A g \in DOMAIN worker :
            /\ worker[g] = "holding" =>
                 /\ ~IsDerived(graph.nodes[CurrentTask(g)].collector_config)
                 /\ temp_worktree[g] \in Worktrees \ worktree_pool
                 /\ checked_out[temp_worktree[g]] = graph.nodes[CurrentTask(g)].commit_hash
                 /\ \A o \in DOMAIN worker \ {g} : temp_worktree[o] # temp_worktree[g]
            /\ (worker[g] # "holding" \/ step # "collecting") =>
                 (g \in DOMAIN temp_worktree => temp_worktree[g] = 0))
    /\ [][\A g \in DOMAIN worker :
            /\ (worker[g] # "holding" /\ g \in DOMAIN worker' /\ worker'[g] = "holding")
                 => temp_worktree'[g] \in worktree_pool
            /\ (worker[g] = "holding" /\ g \in DOMAIN worker' /\ worker'[g] = "holding")
                 => /\ temp_worktree'[g] = temp_worktree[g]
                    /\ checked_out'[temp_worktree[g]] = checked_out[temp_worktree[g]]
            /\ (step = "collecting" /\ position[g] \in DOMAIN node_indices[g]
                  /\ CurrentTask(g) \in invoked' /\ CurrentTask(g) \notin invoked)
                 => IF IsDerived(graph.nodes[CurrentTask(g)].collector_config)
                    THEN /\ worktree_pool' = worktree_pool
                         /\ temp_worktree' = temp_worktree
                         /\ checked_out' = checked_out
                    ELSE worker[g] = "holding"]_vars

\* a base collector runs on the worktree its worker reset to its commit
\* while another worker waits for a worktree
C30_Witness ==
    /\ step = "collecting"
    /\ \E g \in DOMAIN worker, o \in DOMAIN worker :
         /\ worker[g] = "holding"
         /\ checked_out[temp_worktree[g]] = graph.nodes[CurrentTask(g)].commit_hash
         /\ worker[o] = "spin"

\* ---------------------------------------------------------------------
\* Properties of the collectors that read the previous commit's value
\* ---------------------------------------------------------------------

\* C27: a step in which the PatternOccurences collector of a node finds the
\* value P of its temporal predecessor in the store and returns a value,
\* stores for the node exactly the matches of P whose path is not among the
\* changed files of the node's commit (the globs not applied), united with
\* the matches found in the changed files that match the globs and exist
\* in the tree of the commit.
C27_IncrementalValue ==
    [][\A n \in 1..Len(graph.nodes) :
          (/\ graph.nodes[n].collector_config.kind = "PatternOccurences"
           /\ n \in invoked' /\ n \notin invoked
           /\ KeyOf(n) \in DOMAIN storage'
           /\ get_previous_commit_value_of_collector(storage, graph, n) # {})
          => \E v \in get_previous_commit_value_of_collector(storage, graph, n) :
               storage'[KeyOf(n)].matches =
                  {m \in v.matches :
                      m.path \notin get_current_changed_file_paths(
                                        repository, graph.nodes[n].commit_hash)}
                  \cup {m \in [path : Files, line : Lines] :
                          /\ m.path \in globs
                          /\ m.path \in get_current_changed_file_paths(
                                            repository, graph.nodes[n].commit_hash)
                          /\ m.path \in DOMAIN repository[graph.nodes[n].commit_hash]
                          /\ m.line \in repository[graph.nodes[n].commit_hash][m.path]}]_vars

\* the collector ran for the third commit on the value of the first: a match
\* of a file changed in the third commit was dropped, and a match of a file
\* the skipped commit removed was kept, which a scan of the tree does not find
C27_Witness ==
    \E n \in invoked, p \in 1..Len(graph.nodes) :
        /\ graph.nodes[n].collector_config.kind = "PatternOccurences"
        /\ p \in PrecedingNodes(graph, n)
        /\ KeyOf(n) \in DOMAIN storage
        /\ KeyOf(p) \in DOMAIN storage
        /\ storage[KeyOf(n)].matches
              # Matches(TreeOf(repository, graph.nodes[n].commit_hash), globs)
        /\ \E m \in storage[KeyOf(p)].matches : m \notin storage[KeyOf(n)].matches
        /\ \E m \in storage[KeyOf(p)].matches : m \in storage[KeyOf(n)].matches

\* the store without the values of the temporal predecessors of node n
WithoutPrevious(st, gr, n) ==
    [k \in DOMAIN st \ {StorageKey(gr.nodes[p]) : p \in PrecedingNodes(gr, n)} |-> st[k]]

\* C28: at the end of an evaluation without errors, the value stored for a
\* node whose collector ran, and whose temporal predecessor's collector ran
\* in the same evaluation, is the value the collector returns when the
\* predecessor's value is not in the store: the order in which the two
\* commit-groups ran does not show in the store.
C28_InterleavingIndependent ==
    (CollectionOver /\ errors = {}) =>
        \A n \in invoked :
            (/\ KeyOf(n) \in DOMAIN storage
             /\ PrecedingNodes(graph, n) # {}
             /\ PrecedingNodes(graph, n) \subseteq invoked)
            => storage[KeyOf(n)] =
                 CollectorOutput(WithoutPrevious(storage, graph, n), graph, n, repository,
                                 globs, TreeOf(repository, graph.nodes[n].commit_hash)).value

\* ---------------------------------------------------------------------
\* Properties of the frequency predicate
\* ---------------------------------------------------------------------

\* C40 as stated: for the frequency of every metric and the times of all the
\* commits, the same-bucket relation is symmetric, and it holds between a
\* time and itself, PerCommit included.
C40_SymmetricReflexive ==
    Built =>
        \A m \in DOMAIN metrics : \A i \in DOMAIN commits, j \in DOMAIN commits :
            /\ SameBucket(commits[i].time, commits[j].time, metrics[m].frequency)
                  = SameBucket(commits[j].time, commits[i].time, metrics[m].frequency)
            /\ SameBucket(commits[i].time, commits[i].time, metrics[m].frequency)

\* C40 amended: the same-bucket relation is symmetric for every frequency;
\* it holds between a time and itself for every frequency but PerCommit,
\* for which it holds between no two times, a time and itself included.
C40_SymmetricReflexiveButPerCommit ==
    Built =>
        \A m \in DOMAIN metrics : \A i \in DOMAIN commits, j \in DOMAIN commits :
            /\ SameBucket(commits[i].time, commits[j].time, metrics[m].frequency)
                  = SameBucket(commits[j].time, commits[i].time, metrics[m].frequency)
            /\ IF metrics[m].frequency = "PerCommit"
               THEN ~SameBucket(commits[i].time, commits[j].time, metrics[m].frequency)
               ELSE SameBucket(commits[i].time, commits[i].time, metrics[m].frequency)

\* a graph was built for a PerCommit metric over two commits of the same
\* time, and for neither of them the predicate held: both have their node
C40_Witness ==
    /\ Built
    /\ Len(metrics) = 1
    /\ metrics[1].frequency = "PerCommit"
    /\ Len(commits) = 2
    /\ commits[1].time = commits[2].time
    /\ \A i \in DOMAIN commits :
          \E n \in NodeIndices(graph) :
             graph.nodes[n] = Task(metrics[1].collector, commits[i].id)

\* ---------------------------------------------------------------------
\* Properties of the edges of the graph
\* ---------------------------------------------------------------------

\* C31: in a built graph an edge has distance 0 exactly if it is a dependency
\* edge, from the node of the target's dependency on the target's commit,
\* and every temporal edge, between two nodes of one collector on different
\* commits, has a distance of at least 1.
C31_DistanceTellsClass ==
    Built =>
        \A e \in 1..Len(graph.edges) :
            LET source == graph.nodes[graph.edges[e].source]
                target == graph.nodes[graph.edges[e].target]
            IN /\ graph.edges[e].distance = 0
                    <=> (/\ source.commit_hash = target.commit_hash
                         /\ HasDependency(target.collector_config)
                         /\ source.collector_config = DependencyOf(target.collector_config))
               /\ (source.collector_config = target.collector_config
                     /\ source.commit_hash # target.commit_hash)
                    => graph.edges[e].distance >= 1

\* C38: in a built graph a node has at most one incoming temporal edge (an
\* edge from a node of another commit); its source has the node's collector
\* key, and the source's commit comes before the node's commit in ascending
\* time order: it is older, or as old and earlier in the list of commits.
C38_OneTemporalPredecessor ==
    Built =>
        \A n \in NodeIndices(graph) :
            LET temporal == {e \in 1..Len(graph.edges) :
                               /\ graph.edges[e].target = n
                               /\ graph.nodes[graph.edges[e].source].commit_hash
                                     # graph.nodes[n].commit_hash}
                Place(id) == CHOOSE i \in DOMAIN commits : commits[i].id = id
            IN /\ Cardinality(temporal) <= 1
               /\ \A e \in temporal :
                     LET source == graph.nodes[graph.edges[e].source]
                         from == Place(source.commit_hash)
                         to == Place(graph.nodes[n].commit_hash)
                     IN /\ source.collector_config = graph.nodes[n].collector_config
                        /\ \/ commits[from].time < commits[to].time
                           \/ commits[from].time = commits[to].time /\ from < to

\* a graph built from commits the walk returned newest first, for two metrics
\* of which one needs the other's collector, with a temporal edge between
\* nodes of the shared collector
C38_Witness ==
    /\ Built
    /\ Len(metrics) = 2
    /\ metrics[1].collector # metrics[2].collector
    /\ Len(commits) >= 2
    /\ commits[1].time > commits[2].time
    /\ \E e \in 1..Len(graph.edges) :
          /\ graph.nodes[graph.edges[e].source].commit_hash
                # graph.nodes[graph.edges[e].target].commit_hash
          /\ graph.nodes[graph.edges[e].target].collector_config = K("Loc")

\* ---------------------------------------------------------------------
\* Properties of the lookups of the collectors
\* ---------------------------------------------------------------------

\* C37: in a built graph, for every node, the lookup its collector starts
\* with (an incoming edge of distance 0 whose source has the collector
\* configuration the collector asks for) finds a source node, and this node
\* is on the node's own commit: the lookup does not panic.
C37_DependencyFound ==
    Built =>
        \A n \in NodeIndices(graph) :
            \A key \in NodePredicate(graph.nodes[n].collector_config) :
                /\ find_preceding_node(graph, n, 0, key) # 0
                /\ graph.nodes[find_preceding_node(graph, n, 0, key)]
                      = Task(key, graph.nodes[n].commit_hash)

\* a graph in which a node that does a lookup has two incoming edges of
\* distance 0, the newer one from the node of its own collector on the
\* commit before
C37_Witness ==
    /\ Built
    /\ \E n \in NodeIndices(graph) :
          /\ NodePredicate(graph.nodes[n].collector_config) # {}
          /\ Len(find_incoming_edges(graph, n, 0)) = 2
          /\ graph.nodes[graph.edges[find_incoming_edges(graph, n, 0)[1]].source].collector_config
                = graph.nodes[n].collector_config

\* the collector configurations a lookup at node n is asked for here: the one
\* its collector asks for, and its own, which none of its dependencies has
LookupKeys(n) ==
    NodePredicate(graph.nodes[n].collector_config) \cup {graph.nodes[n].collector_config}

\* the source nodes the dependency lookup for key can return at node n
Matching(gr, n, key) ==
    {gr.edges[e].source : e \in {e \in 1..Len(gr.edges) :
        /\ gr.edges[e].target = n
        /\ gr.edges[e].distance = 0
        /\ gr.nodes[gr.edges[e].source].collector_config = key}}

\* C36 as stated: for every node and every collector configuration asked
\* for, the dependency lookup returns a value or an error value to its
\* caller, also when no source node matches.
C36_LookupReturns ==
    \A n \in NodeIndices(graph) : \A key \in LookupKeys(n) :
        get_value_of_preceeding_node(storage, graph, n, 0, key).outcome \in {"Ok", "Err"}

\* C36 amended: the dependency lookup returns the value of the matching
\* source node when that value is in the store, and the error value when a
\* source node matches and its value is not in the store; when no source
\* node matches it returns nothing to its caller: it panics.
C36_LookupReturnsOrPanics ==
    \A n \in NodeIndices(graph) : \A key \in LookupKeys(n) :
        LET r == get_value_of_preceeding_node(storage, graph, n, 0, key)
            stored == {p \in Matching(graph, n, key) : KeyOf(p) \in DOMAIN storage}
        IN CASE Matching(graph, n, key) = {} -> r.outcome = "panic"
             [] Matching(graph, n, key) # {} /\ stored = {} -> r.outcome = "Err"
             [] OTHER -> /\ r.outcome = "Ok"
                         /\ r.value \subseteq {storage[KeyOf(p)] : p \in stored}
                         /\ r.value # {}

\* during a collection the lookup of a collector finds the value of its
\* dependency for one node and misses it for another, and a lookup for the
\* node's own collector matches no source
C36_Witness ==
    /\ step = "collecting"
    /\ \E n \in NodeIndices(graph), o \in NodeIndices(graph), key \in CollectorConfig :
          /\ key \in NodePredicate(graph.nodes[n].collector_config)
          /\ key \in NodePredicate(graph.nodes[o].collector_config)
          /\ get_value_of_preceeding_node(storage, graph, n, 0, key).outcome = "Ok"
          /\ get_value_of_preceeding_node(storage, graph, o, 0, key).outcome = "Err"
          /\ get_value_of_preceeding_node(storage, graph, n, 0,
                                          graph.nodes[n].collector_config).outcome = "panic"

(***************************************************************************)
(* The builder over histories long enough for a selected commit to follow  *)
(* a selected commit that follows a skipped one.                           *)
(***************************************************************************)
\* 2012-12-31T00, 2012-12-31T01, 2013-01-01, 2013-01-02
DistanceTimes == {0, 1, 24, 48}

DistanceCommitLists ==
    {[i \in 1..(MaxCommits + 1) |-> Commit(i, t[i])] :
        t \in [1..(MaxCommits + 1) -> DistanceTimes]}

DistanceInit ==
    /\ metrics \in {<<Metric(k, f)>> :
                        k \in {K("TotalDiffStat"), K("TotalLoc")},
                        f \in {"PerCommit", "Daily", "Hourly"}}
    /\ commits \in DistanceCommitLists
    /\ force_latest_commit \in BOOLEAN
    /\ disable_cache = TRUE
    /\ cache = Empty
    /\ output = Empty
    /\ state = "IdleWithCommits"
    /\ step = "build_graph"
    /\ Fetched
    /\ Bare
    /\ Mounted
    /\ Blank

DistanceSpec == DistanceInit /\ [][GraphNext]_vars

\* the place of the commit with this id in sorted_commits
PlaceOf(sorted, id) == CHOOSE i \in 1..Len(sorted) : sorted[i].id = id

\* C32: every temporal edge of a metric leads from the node of the same
\* collector at the previous selected commit, and its distance is the
\* number of commits skipped between the two, counted from 0 again after
\* each selected commit.
C32_DistanceCountsSkipped ==
    Built =>
        LET sorted == SortedCommits(commits)
        IN \A e \in 1..Len(graph.edges) :
              LET s == graph.nodes[graph.edges[e].source]
                  t == graph.nodes[graph.edges[e].target]
              IN s.commit_hash # t.commit_hash =>
                    /\ s.collector_config = t.collector_config
                    /\ PlaceOf(sorted, s.commit_hash) < PlaceOf(sorted, t.commit_hash)
                    /\ \A n \in NodeIndices(graph) :
                          graph.nodes[n].collector_config = t.collector_config =>
                              ~ /\ PlaceOf(sorted, s.commit_hash)
                                      < PlaceOf(sorted, graph.nodes[n].commit_hash)
                                /\ PlaceOf(sorted, graph.nodes[n].commit_hash)
                                      < PlaceOf(sorted, t.commit_hash)
                    /\ graph.edges[e].distance
                          = PlaceOf(sorted, t.commit_hash) - PlaceOf(sorted, s.commit_hash) - 1

\* the temporal edges into node n: the edges from a node of another commit
TemporalEdgesInto(gr, n) ==
    {e \in 1..Len(gr.edges) :
        /\ gr.edges[e].target = n
        /\ gr.nodes[gr.edges[e].source].commit_hash # gr.nodes[n].commit_hash}

\* C34: for a node with an incoming temporal edge the previous-commit lookup
\* returns the value stored for the edge's source whenever it is in the
\* store, whatever the distance of the edge; it returns none when the node
\* has no temporal edge or the source's value is not in the store.
C34_PreviousValueFound ==
    \A n \in NodeIndices(graph) :
        LET stored == {e \in TemporalEdgesInto(graph, n) :
                          KeyOf(graph.edges[e].source) \in DOMAIN storage}
        IN /\ \A e \in stored :
                 get_previous_commit_value_of_collector(storage, graph, n)
                     = {storage[KeyOf(graph.edges[e].source)]}
           /\ stored = {} => get_previous_commit_value_of_collector(storage, graph, n) = {}

\* C35: a PatternOccurences or TotalCargoDependencies collector that finds
\* no value of a temporal predecessor, for want of a temporal edge or of the
\* predecessor's value in the store, returns no error for it: it returns
\* what a search of the whole tree finds, or the dependencies of the lock
\* files changed in the commit, and fails only on a changed lock file that
\* is gone, which it reads whatever the predecessor's value.
C35_AbsenceIsNoError ==
    \A n \in NodeIndices(graph) :
        (/\ graph.nodes[n].collector_config.kind \in {"PatternOccurences", "TotalCargoDeps"}
         /\ get_previous_commit_value_of_collector(storage, graph, n) = {})
        => LET tree == TreeOf(repository, graph.nodes[n].commit_hash)
               changed == get_current_changed_file_paths(repository,
                                                         graph.nodes[n].commit_hash)
               out == CollectorOutput(storage, graph, n, repository, globs, tree)
           IN IF graph.nodes[n].collector_config.kind = "PatternOccurences"
              THEN out = [ok |-> TRUE, value |-> [matches |-> Matches(tree, globs)]]
              ELSE /\ out.ok <=> ("Cargo.lock" \in changed => "Cargo.lock" \in DOMAIN tree)
                   /\ out.ok => out.value =
                         [total_dependencies |->
                             IF "Cargo.lock" \in changed
                             THEN Cardinality(tree["Cargo.lock"]) ELSE 0]

\* the collector of a node with a temporal edge ran and stored a value while
\* the value of the edge's source was not in the store
C35_Witness ==
    \E n \in invoked, e \in 1..Len(graph.edges) :
        /\ graph.nodes[n].collector_config.kind \in {"PatternOccurences", "TotalCargoDeps"}
        /\ e \in TemporalEdgesInto(graph, n)
        /\ graph.edges[e].distance = 1
        /\ KeyOf(n) \in DOMAIN storage
        /\ KeyOf(graph.edges[e].source) \notin DOMAIN storage

\* C33: the PatternOccurences collector takes the incremental path only when
\* its temporal predecessor is the commit immediately before its own; when a
\* commit lies between the two, whose changes the changed files of the
\* current commit do not cover, the value it stores is the one the search of
\* the whole tree finds.
C33_FullWalkAcrossSkipped ==
    \A n \in invoked :
        (/\ graph.nodes[n].collector_config.kind = "PatternOccurences"
         /\ KeyOf(n) \in DOMAIN storage
         /\ \E e \in TemporalEdgesInto(graph, n) :
               PlaceOf(SortedCommits(commits), graph.nodes[n].commit_hash)
                  - PlaceOf(SortedCommits(commits),
                            graph.nodes[graph.edges[e].source].commit_hash) > 1)
        => storage[KeyOf(n)].matches
              = Matches(TreeOf(repository, graph.nodes[n].commit_hash), globs)

\* the pairs of a store entry and a metric name configured for its collector
NamedEntries ==
    {p \in (DOMAIN storage) \X (1..Len(metrics)) : metrics[p[2]].collector = p[1][1]}

\* C39: write-to-output calls set_metric(name, commit, value) once for every
\* pair of a store entry and a metric name configured for the entry's
\* collector, with the entry's commit and value, and makes no other call: an
\* entry whose collector is no metric's collector is written under no name.
C39_SetMetricPerName ==
    [][(step = "write_to_output" /\ step' = "done") =>
          LET calls == SetMetricCalls(storage, metrics, DOMAIN storage)
          IN /\ \A p \in NamedEntries :
                   Cardinality({i \in DOMAIN calls :
                                   /\ calls[i].metric_name = p[2]
                                   /\ calls[i].commit = p[1][2]}) = 1
             /\ \A i \in DOMAIN calls :
                   /\ <<<<metrics[calls[i].metric_name].collector, calls[i].commit>>,
                        calls[i].metric_name>> \in NamedEntries
                   /\ calls[i].value
                         = storage[<<metrics[calls[i].metric_name].collector, calls[i].commit>>]
             /\ Len(calls) = Cardinality(NamedEntries)
             /\ \A p \in NamedEntries : output'[<<p[2], p[1][2]>>] = storage[p[1]]
             /\ DOMAIN output'
                   = DOMAIN output \cup {<<p[2], p[1][2]>> : p \in NamedEntries}
             /\ \A w \in DOMAIN output :
                   w \notin {<<p[2], p[1][2]>> : p \in NamedEntries} => output'[w] = output[w]]_vars

\* the output was written from a store that holds the value of a metric and
\* the value of a collector that is only a dependency of the metric
C39_Witness ==
    /\ step = "done"
    /\ \E p \in NamedEntries :
          /\ <<p[2], p[1][2]>> \in DOMAIN output
          /\ output[<<p[2], p[1][2]>>] = storage[p[1]]
    /\ \E k \in DOMAIN storage : \A m \in 1..Len(metrics) : metrics[m].collector # k[1]
    /\ \E k \in DOMAIN storage : \E m \in 1..Len(metrics) :
          /\ metrics[m].collector # k[1]
          /\ <<m, k[2]>> \notin DOMAIN output

====
